---- MODULE Spec2Model ----
(***************************************************************************)
(* A model of the chain state engine of Super-Cardano-node:                *)
(*   - the Ledger's UTXO state machine (src/src/ledger.rs),                *)
(*   - the on-disk ChainDB (src/src/chaindb.rs).                           *)
(*                                                                         *)
(* Every operation is driven by a caller in three positions: the caller    *)
(* picks the arguments ("called"), the operation runs as the code runs it  *)
(* ("returned", with the value it returned) and the caller goes on         *)
(* ("idle").  `pre` keeps the ledger state the operation started from, so  *)
(* that a postcondition can be stated over the state in which the          *)
(* operation has just returned.                                            *)
(***************************************************************************)
EXTENDS Integers, Sequences, FiniteSets, TLC

VARIABLES
    state,      \* Ledger.state: the in-memory LedgerState
    pc,         \* the caller's position: "idle", "called", "returned", ...
    call,       \* the operation called and its arguments
    pre,        \* Ledger.state when the operation was called
    res,        \* the value the operation returned
    seen,       \* ids of the transactions applied so far (tracked runs)
    spent,      \* outputs consumed by successful transactions (tracked runs)
    disk,       \* the ChainDB directory: file name -> bytes
    preDisk,    \* the directory when the operation was called
    todo,       \* rollback_to: the directory entries not yet visited
    ioRes,      \* the io::Result of the last ChainDB operation
    mempool,    \* Mempool.pool: the queue of pending transactions
    produced,   \* ids of the blocks the producer built so far, in order
    ret,        \* the value returned by an operation that returns no bool
    hf,         \* Protocol.hard_fork: the HardForkCombinator
    preHf,      \* the HardForkCombinator when the operation was called
    thr,        \* the threads using the Mempool: position, call, snapshots
    lock,       \* Mempool.pool's Mutex: the thread holding it, or "free"
    prod,       \* the task running the slot loop: position, slot, epoch, block
    peer,       \* the task serving a peer connection: position and message
    sink,       \* ids of the blocks handed to Network::broadcast_block
    locks,      \* the tokio Mutexes of ledger, protocol and mempool: holders
    cstate          \* a ConsensusState, with the number of advance_slot calls made

vars ==
    <<state, pc, call, pre, res, seen, spent, disk, preDisk, todo, ioRes,
      mempool, produced, ret, hf, preHf, thr, lock, prod, peer, sink, locks,
      cstate>>

---------------------------------------------------------------------------
(* Bounds of the model. *)

\* transaction ids are 1..MaxTxId
MaxTxId == 2
\* a transaction lists at most MaxInputs inputs
MaxInputs == 2
\* a transaction has at most MaxOutputs outputs
MaxOutputs == 1
\* a block holds at most MaxBlockTxs transactions
MaxBlockTxs == 2
\* in the runs with pairwise distinct ids, transaction ids are 1..MaxFreshTxId
MaxFreshTxId == 3
\* the ids of the blocks handed to the ChainDB are 1..MaxBlockId
MaxBlockId == 2

---------------------------------------------------------------------------
(* Data model: src/src/ledger.rs. *)

TxIds == 1..MaxTxId

\* HashMap keys of utxos: (tx_id, index)
UtxoKeys == TxIds \X (0..(MaxOutputs - 1))

Addresses == {"A", "B"}

\* TxOutput { address, amount, assets: None }
TxOutputs == [address : Addresses, amount : {100}]

\* TxInput { prev_tx, index } is written <<prev_tx, index>>
SeqsUpTo(S, n) == UNION {[1..k -> S] : k \in 0..n}

\* Transaction { id, inputs, outputs, certificates: [], plutus_witnesses: [] }
Transactions ==
    [id : TxIds, inputs : SeqsUpTo(UtxoKeys, MaxInputs),
     outputs : SeqsUpTo(TxOutputs, MaxOutputs)]

\* the transactions of the runs with pairwise distinct ids: each has at most
\* one output, so that its only output key is (id, 0)
FreshTransactions ==
    [id : 1..MaxFreshTxId,
     inputs : SeqsUpTo((1..MaxFreshTxId) \X {0}, MaxInputs),
     outputs : SeqsUpTo({[address |-> "A", amount |-> 100]}, 1)]

EmptyMap == <<>>

\* Ledger::new: every map of the LedgerState is empty
EmptyState ==
    [utxos |-> EmptyMap, stake_distribution |-> EmptyMap,
     delegations |-> EmptyMap, stake_pools |-> EmptyMap,
     pool_retirements |-> EmptyMap, rewards |-> EmptyMap]

Range(s) == {s[i] : i \in DOMAIN s}

\* HashMap::remove for each key of ks
MapRemoveAll(m, ks) == [k \in (DOMAIN m) \ ks |-> m[k]]

\* HashMap::insert of (tx.id, idx) -> output for each output in turn; an
\* existing entry under the same key is replaced
MapInsertOutputs(m, tx) ==
    LET new == {<<tx.id, i - 1>> : i \in DOMAIN tx.outputs}
    IN  [k \in (DOMAIN m) \cup new |->
            IF k \in new THEN tx.outputs[k[2] + 1] ELSE m[k]]

\* a plausible slip: only the first input is looked up
MutInputsPresentFirstOnly(s, tx) ==
    tx.inputs = <<>> \/ tx.inputs[1] \in DOMAIN s.utxos

\* the first loop of apply_transaction: every input is a key of utxos
InputsPresent(s, tx) == \A i \in DOMAIN tx.inputs : tx.inputs[i] \in DOMAIN s.utxos

\* a plausible slip: the spent inputs are not removed
MutApplyKeepInputs(s, tx) ==
    IF ~InputsPresent(s, tx)
    THEN [ok |-> FALSE, state |-> s]
    ELSE [ok |-> TRUE,
          state |-> [s EXCEPT !.utxos = MapInsertOutputs(s.utxos, tx)]]

\* a plausible slip: the pool registrations a transaction carries are
\* entered into stake_pools when the transaction is applied
MutApplyWithCertificates(s, tx) ==
    IF ~InputsPresent(s, tx)
    THEN [ok |-> FALSE, state |-> s]
    ELSE LET regs == IF "certificates" \in DOMAIN tx
                     THEN {c \in Range(tx.certificates) :
                              c.kind = "PoolRegistration"}
                     ELSE {}
             ids == {c.reg.pool_id : c \in regs}
         IN  [ok |-> TRUE,
              state |-> [s EXCEPT
                  !.utxos = MapInsertOutputs(
                      MapRemoveAll(s.utxos, Range(tx.inputs)), tx),
                  !.stake_pools =
                      [p \in (DOMAIN s.stake_pools) \cup ids |->
                          IF p \in ids
                          THEN [registration |->
                                    (CHOOSE c \in regs : c.reg.pool_id = p).reg,
                                active |-> TRUE,
                                retirement_epoch |->
                                    [some |-> FALSE, value |-> 0]]
                          ELSE s.stake_pools[p]]]]

\* Ledger::apply_transaction: the value returned and the state left behind
ApplyTransaction(s, tx) ==
    IF ~InputsPresent(s, tx)
    THEN [ok |-> FALSE, state |-> s]
    ELSE [ok |-> TRUE,
          state |-> [s EXCEPT !.utxos =
              MapInsertOutputs(MapRemoveAll(s.utxos, Range(tx.inputs)), tx)]]

\* the transactions of the ledger's own tests (utxo_apply_and_double_spend,
\* utxo_block_application), and one that spends (1, 0) into nothing
Coinbase == [id |-> 1, inputs |-> <<>>,
             outputs |-> <<[address |-> "A", amount |-> 100]>>]
Spend == [id |-> 2, inputs |-> <<<<1, 0>>>>,
          outputs |-> <<[address |-> "B", amount |-> 100]>>]
DoubleSpend == [id |-> 3, inputs |-> <<<<1, 0>>>>,
                outputs |-> <<[address |-> "C", amount |-> 100]>>]
Burn == [id |-> 4, inputs |-> <<<<1, 0>>>>, outputs |-> <<>>]

BlockTransactions == {Coinbase, Spend, DoubleSpend, Burn}

\* Block { id, header, transactions }; apply_block reads only transactions
Blocks == [id : {1}, transactions : SeqsUpTo(BlockTransactions, MaxBlockTxs)]

\* the loop of apply_block from the i-th transaction on: it returns at the
\* first transaction that fails, with whatever the earlier ones changed
RECURSIVE ApplyBlockFrom(_, _, _)
ApplyBlockFrom(s, txs, i) ==
    IF i > Len(txs)
    THEN [ok |-> TRUE, state |-> s]
    ELSE LET r == ApplyTransaction(s, txs[i])
         IN  IF ~r.ok
             THEN [ok |-> FALSE, state |-> r.state]
             ELSE ApplyBlockFrom(r.state, txs, i + 1)

\* Ledger::apply_block
ApplyBlock(s, block) == ApplyBlockFrom(s, block.transactions, 1)

NoCall == [op |-> "none"]

\* no value has been returned
NoValue == [tag |-> "none"]

\* Protocol::new has not run yet
NoHardFork == [variant |-> "none"]

\* the threads sharing one Mempool (the network task and the producer)
Threads == {"t1", "t2"}

\* a thread outside every Mempool call
\* no ConsensusState has been built yet
NoConsensusState ==
    [built |-> FALSE, slot |-> 0, epoch |-> 0, slots_per_epoch |-> 1,
     kes_period |-> 0, kes_rotation_interval |-> 1, advanced |-> 0]

\* the slot loop before it is spawned
NewProducer ==
    [pc |-> "new", slot |-> 0, current_epoch |-> 0, held |-> 0,
     block |-> [tag |-> "None"], validated |-> FALSE, applied |-> FALSE,
     sent |-> FALSE]

\* a peer connection waiting in reader.read()
NewPeer == [pc |-> "read", held |-> 0, msg |-> [kind |-> "none"]]

\* no task holds a tokio Mutex
FreeLocks == [ledger |-> "free", protocol |-> "free", mempool |-> "free"]

NoTransaction == [id |-> 0, inputs |-> <<>>, outputs |-> <<>>]

\* a thread that is not inside a Mempool method
IdleThread ==
    [pc |-> "idle", op |-> "none", tx |-> NoTransaction, tx_id |-> 0,
     before |-> <<>>, pos |-> 0, ok |-> FALSE, got |-> <<>>]

---------------------------------------------------------------------------
(* The caller and the operations. *)

Init ==
    /\ state = EmptyState
    /\ pc = "idle"
    /\ call = NoCall
    /\ pre = EmptyState
    /\ res = FALSE
    /\ seen = {}
    /\ spent = {}
    /\ disk = EmptyMap
    /\ preDisk = EmptyMap
    /\ todo = {}
    /\ ioRes = "none"
    /\ mempool = <<>>
    /\ produced = <<>>
    /\ ret = NoValue
    /\ hf = NoHardFork
    /\ preHf = NoHardFork
    /\ thr = [t \in Threads |-> IdleThread]
    /\ lock = "free"
    /\ prod = NewProducer
    /\ peer = NewPeer
    /\ sink = <<>>
    /\ locks = FreeLocks
    /\ cstate = NoConsensusState

\* a caller invokes ledger.apply_transaction(&tx)
CallApplyTransaction ==
    /\ pc = "idle"
    /\ \E tx \in Transactions :
          call' = [op |-> "apply_transaction", tx |-> tx]
    /\ pc' = "called"
    /\ pre' = state
    /\ UNCHANGED <<state, res, seen, spent, disk, preDisk, todo, ioRes, mempool, produced, ret,
                   hf, preHf, thr, lock,
                   prod, peer, sink, locks, cstate>>

\* the body of Ledger::apply_transaction
RunApplyTransaction ==
    /\ pc = "called"
    /\ call.op = "apply_transaction"
    /\ LET r == ApplyTransaction(state, call.tx)
       IN  /\ state' = r.state
           /\ res' = r.ok
    /\ pc' = "returned"
    /\ UNCHANGED <<call, pre, seen, spent, disk, preDisk, todo, ioRes, mempool, produced, ret,
                   hf, preHf, thr, lock,
                   prod, peer, sink, locks, cstate>>

\* the caller has its answer and goes on
Return ==
    /\ pc = "returned"
    /\ pc' = "idle"
    /\ call' = NoCall
    /\ pre' = EmptyState
    /\ res' = FALSE
    /\ UNCHANGED <<state, seen, spent, disk, preDisk, todo, ioRes, mempool, produced, ret,
                   hf, preHf, thr, lock,
                   prod, peer, sink, locks, cstate>>

Next ==
    \/ CallApplyTransaction
    \/ RunApplyTransaction
    \/ Return

Spec == Init /\ [][Next]_vars

---------------------------------------------------------------------------
(* Runs in which no two apply_transaction calls carry the same id. *)

\* a caller invokes ledger.apply_transaction(&tx) with an id not used before
CallFreshTransaction ==
    /\ pc = "idle"
    /\ \E tx \in FreshTransactions :
          /\ tx.id \notin seen
          /\ call' = [op |-> "apply_transaction", tx |-> tx]
          /\ seen' = seen \cup {tx.id}
    /\ pc' = "called"
    /\ pre' = state
    /\ UNCHANGED <<state, res, spent, disk, preDisk, todo, ioRes, mempool, produced, ret,
                   hf, preHf, thr, lock,
                   prod, peer, sink, locks, cstate>>

\* the caller goes on; the inputs of a successful transaction are recorded
\* as consumed
ReturnTracked ==
    /\ pc = "returned"
    /\ pc' = "idle"
    /\ spent' = IF res THEN spent \cup Range(call.tx.inputs) ELSE spent
    /\ call' = NoCall
    /\ pre' = EmptyState
    /\ res' = FALSE
    /\ UNCHANGED <<state, seen, disk, preDisk, todo, ioRes, mempool, produced, ret,
                   hf, preHf, thr, lock,
                   prod, peer, sink, locks, cstate>>

NextDistinct ==
    \/ CallFreshTransaction
    \/ RunApplyTransaction
    \/ ReturnTracked

SpecDistinct == Init /\ [][NextDistinct]_vars

---------------------------------------------------------------------------
(* Ledger::apply_block. *)

\* a caller invokes ledger.apply_block(&block)
CallApplyBlock ==
    /\ pc = "idle"
    /\ \E b \in Blocks : call' = [op |-> "apply_block", block |-> b]
    /\ pc' = "called"
    /\ pre' = state
    /\ UNCHANGED <<state, res, seen, spent, disk, preDisk, todo, ioRes, mempool, produced, ret,
                   hf, preHf, thr, lock,
                   prod, peer, sink, locks, cstate>>

\* the body of Ledger::apply_block
RunApplyBlock ==
    /\ pc = "called"
    /\ call.op = "apply_block"
    /\ LET r == ApplyBlock(state, call.block)
       IN  /\ state' = r.state
           /\ res' = r.ok
    /\ pc' = "returned"
    /\ UNCHANGED <<call, pre, seen, spent, disk, preDisk, todo, ioRes, mempool, produced, ret,
                   hf, preHf, thr, lock,
                   prod, peer, sink, locks, cstate>>

NextBlock ==
    \/ CallApplyBlock
    \/ RunApplyBlock
    \/ Return

SpecBlock == Init /\ [][NextBlock]_vars

\* C1: apply_block is all-or-nothing: when it returns false the LedgerState
\* equals the state before the call, also when earlier transactions of the
\* block had been applied.
C1_ApplyBlockAllOrNothing ==
    (pc = "returned" /\ call.op = "apply_block" /\ res = FALSE) => state = pre

---------------------------------------------------------------------------
(* Claims about Ledger::apply_transaction. *)

TxReturned == pc = "returned" /\ call.op = "apply_transaction"

HasDuplicateInput(tx) ==
    \E i, j \in DOMAIN tx.inputs : i # j /\ tx.inputs[i] = tx.inputs[j]

\* C2: after apply_transaction(t) returned true, no input of t is a key of
\* utxos and every key (t.id, i), 0 <= i < |t.outputs|, maps to t.outputs[i],
\* also when an input of t is (t.id, i).
C2_InputsGoneOutputsPresent ==
    (TxReturned /\ res) =>
        /\ \A k \in Range(call.tx.inputs) : k \notin DOMAIN state.utxos
        /\ \A i \in DOMAIN call.tx.outputs :
              /\ <<call.tx.id, i - 1>> \in DOMAIN state.utxos
              /\ state.utxos[<<call.tx.id, i - 1>>] = call.tx.outputs[i]

\* C3: a transaction naming an input absent from utxos is refused and the
\* whole LedgerState is the state from before the call.
C3_AbsentInputRejected ==
    (TxReturned /\ \E k \in Range(call.tx.inputs) : k \notin DOMAIN pre.utxos)
        => (res = FALSE /\ state = pre)

C3_Witness ==
    /\ TxReturned
    /\ \E k \in Range(call.tx.inputs) : k \notin DOMAIN pre.utxos
    /\ \E k \in Range(call.tx.inputs) : k \in DOMAIN pre.utxos
    /\ res = FALSE
    /\ state = pre

\* C4: a transaction listing the same (prev_tx, index) twice is refused and
\* changes nothing, even when that pair is in utxos.
C4_DuplicateInputRejected ==
    (TxReturned /\ HasDuplicateInput(call.tx)) => (res = FALSE /\ state = pre)

\* C5: with pairwise distinct transaction ids, once a successful transaction
\* consumed an output, every later transaction listing it returns false.
C5_NoDoubleSpend ==
    (TxReturned /\ Range(call.tx.inputs) \cap spent # {}) => res = FALSE

C5_Witness ==
    /\ TxReturned
    /\ Range(call.tx.inputs) \cap spent # {}
    /\ res = FALSE
    /\ \A k \in Range(call.tx.inputs) : k \in spent

\* C6: an entry of utxos is removed or replaced only by a successful
\* transaction that lists it as an input; a transaction whose output key
\* already exists never overwrites the existing unspent output.
C6_OnlyInputsConsumed ==
    TxReturned =>
        \A k \in DOMAIN pre.utxos :
            (k \notin DOMAIN state.utxos \/ state.utxos[k] # pre.utxos[k])
                => (res /\ k \in Range(call.tx.inputs))

---------------------------------------------------------------------------
(* ChainDB: src/src/chaindb.rs.  The directory is a map from file names to *)
(* bytes; "block_<id>.json" is written <<"block", id>> and                 *)
(* "state_<id>.json" is written <<"state", id>>.                           *)

BlockIdRange == 1..MaxBlockId

FileNames == {"block", "state"} \X BlockIdRange

\* fname.split('_').nth(1), then split('.').next(), parsed as u64
RollbackNum(fname) == fname[2]

\* a plausible slip: the block rolled back to is removed as well
MutRollbackRemovesFrom(num, id) == num >= id

\* the test of rollback_to: the file is removed when num > id
RollbackRemoves(num, id) == num > id

\* serde_json::to_vec(block): a Block is a struct of integers, strings and
\* sequences, which JSON can hold (the blocks of this model carry no
\* certificates, so no f64 margin)
ToVecBlock(b) == [json |-> "Block", value |-> b]

\* serde_json::to_vec(state): the keys of utxos are tuples (u64, u32), and
\* serde_json refuses a map whose keys are not strings ("key must be a
\* string"); the other maps have String keys.  Only a state with no utxo
\* serializes.
ToVecState(s) ==
    IF DOMAIN s.utxos # {}
    THEN [json |-> "Err"]
    ELSE [json |-> "LedgerState", value |-> s]

\* bytes left by a write that did not complete
Torn == [json |-> "torn"]

\* serde_json::from_slice(&buf)
FromSlice(bytes, type) ==
    IF bytes.json = type
    THEN [tag |-> "Ok", value |-> bytes.value]
    ELSE [tag |-> "Err"]

\* File::open, read_to_end, from_slice(..).unwrap()
Load(d, fname, type) ==
    IF fname \notin DOMAIN d
    THEN [tag |-> "NotFound"]
    ELSE LET v == FromSlice(d[fname], type)
         IN  IF v.tag = "Ok" THEN v ELSE [tag |-> "Panic"]

\* ChainDB::load_block
LoadBlock(d, id) == Load(d, <<"block", id>>, "Block")

\* ChainDB::load_state
LoadState(d, id) == Load(d, <<"state", id>>, "LedgerState")

RECURSIVE SortedSeq(_)
SortedSeq(S) ==
    IF S = {}
    THEN <<>>
    ELSE LET m == CHOOSE x \in S : \A y \in S : x <= y
         IN  <<m>> \o SortedSeq(S \ {m})

\* ChainDB::block_ids: the ids of the files named block_<u64>.json, sorted
BlockIdsOf(d) == SortedSeq({f[2] : f \in {g \in DOMAIN d : g[1] = "block"}})

\* fs::write(path, data) that completed
FileWritten(d, fname, bytes) ==
    [f \in (DOMAIN d) \cup {fname} |-> IF f = fname THEN bytes ELSE d[f]]

\* fs::remove_file(path)
FileRemoved(d, fname) == [f \in (DOMAIN d) \ {fname} |-> d[f]]

\* the blocks and states handed to ChainDB::append_block directly
StoreBlocks == [id : BlockIdRange, transactions : {<<>>, <<Coinbase>>}]

RewardState == [EmptyState EXCEPT !.rewards = [a \in {"A"} |-> 1]]

UtxoState ==
    [EmptyState EXCEPT !.utxos =
        [k \in {<<1, 0>>} |-> [address |-> "A", amount |-> 100]]]

StoreStates == {EmptyState, RewardState, UtxoState}

\* the state append_block is given: its argument, or the ledger's own state
\* when apply_block_with_db calls it
AppendState == IF call.op = "append_block" THEN call.state ELSE state

\* a caller invokes db.append_block(&block, &state)
CallAppendBlock ==
    /\ pc = "idle"
    /\ \E b \in StoreBlocks, s \in StoreStates :
          call' = [op |-> "append_block", block |-> b, state |-> s]
    /\ pc' = "called"
    /\ preDisk' = disk
    /\ UNCHANGED <<state, pre, res, seen, spent, disk, todo, ioRes, mempool, produced, ret,
                   hf, preHf, thr, lock,
                   prod, peer, sink, locks, cstate>>

\* append_block, lines 46-49: both values are serialized, and unwrapped,
\* before anything is written
Serialize ==
    /\ \/ pc = "called" /\ call.op = "append_block"
       \/ pc = "appending"
    /\ pc' = IF ToVecState(AppendState).json = "Err"
             THEN "panicked" ELSE "write_block"
    /\ UNCHANGED <<state, call, pre, res, seen, spent, disk, preDisk, todo, ioRes, mempool, produced, ret,
                   hf, preHf, thr, lock,
                   prod, peer, sink, locks, cstate>>

\* append_block has returned r; apply_block_with_db, lines 249-251, drops r
\* (let _ = ...) and returns true
AppendReturns(r) ==
    /\ ioRes' = r
    /\ res' = IF call.op = "apply_block_with_db" THEN TRUE ELSE res
    /\ pc' = "returned"

\* append_block, line 50: fs::write(block_path, block_data)
WriteBlock ==
    /\ pc = "write_block"
    /\ disk' = FileWritten(disk, <<"block", call.block.id>>, ToVecBlock(call.block))
    /\ pc' = "write_state"
    /\ UNCHANGED <<state, call, pre, res, seen, spent, preDisk, todo, ioRes, mempool, produced, ret,
                   hf, preHf, thr, lock,
                   prod, peer, sink, locks, cstate>>

\* line 50 fails with an I/O error: the file is as it was, or holds a part
\* of the data
WriteBlockFails ==
    /\ pc = "write_block"
    /\ \/ disk' = disk
       \/ disk' = FileWritten(disk, <<"block", call.block.id>>, Torn)
    /\ AppendReturns("Err")
    /\ UNCHANGED <<state, call, pre, seen, spent, preDisk, todo, mempool, produced, ret,
                   hf, preHf, thr, lock,
                   prod, peer, sink, locks, cstate>>

\* append_block, lines 51-52: fs::write(state_path, state_data); Ok(())
WriteState ==
    /\ pc = "write_state"
    /\ disk' = FileWritten(disk, <<"state", call.block.id>>, ToVecState(AppendState))
    /\ AppendReturns("Ok")
    /\ UNCHANGED <<state, call, pre, seen, spent, preDisk, todo, mempool, produced, ret,
                   hf, preHf, thr, lock,
                   prod, peer, sink, locks, cstate>>

\* line 51 fails with an I/O error
WriteStateFails ==
    /\ pc = "write_state"
    /\ \/ disk' = disk
       \/ disk' = FileWritten(disk, <<"state", call.block.id>>, Torn)
    /\ AppendReturns("Err")
    /\ UNCHANGED <<state, call, pre, seen, spent, preDisk, todo, mempool, produced, ret,
                   hf, preHf, thr, lock,
                   prod, peer, sink, locks, cstate>>

\* a caller invokes db.rollback_to(id)
CallRollbackTo ==
    /\ pc = "idle"
    /\ \E id \in 0..MaxBlockId : call' = [op |-> "rollback_to", id |-> id]
    /\ pc' = "called"
    /\ preDisk' = disk
    /\ UNCHANGED <<state, pre, res, seen, spent, disk, todo, ioRes, mempool, produced, ret,
                   hf, preHf, thr, lock,
                   prod, peer, sink, locks, cstate>>

\* rollback_to, line 75: fs::read_dir
ReadDir ==
    /\ pc = "called"
    /\ call.op = "rollback_to"
    /\ todo' = DOMAIN disk
    /\ pc' = "rollback_loop"
    /\ UNCHANGED <<state, call, pre, res, seen, spent, disk, preDisk, ioRes, mempool, produced, ret,
                   hf, preHf, thr, lock,
                   prod, peer, sink, locks, cstate>>

\* rollback_to, lines 76-86: one turn of the loop, on the next entry in the
\* directory's own order
RollbackStep ==
    /\ pc = "rollback_loop"
    /\ \E e \in todo :
          /\ todo' = todo \ {e}
          /\ disk' = IF RollbackRemoves(RollbackNum(e), call.id)
                     THEN FileRemoved(disk, e) ELSE disk
    /\ UNCHANGED <<state, pc, call, pre, res, seen, spent, preDisk, ioRes, mempool, produced, ret,
                   hf, preHf, thr, lock,
                   prod, peer, sink, locks, cstate>>

\* line 82 fails with an I/O error: rollback_to returns it, the loop ends
RemoveFails ==
    /\ pc = "rollback_loop"
    /\ \E e \in todo : RollbackRemoves(RollbackNum(e), call.id)
    /\ todo' = {}
    /\ ioRes' = "Err"
    /\ pc' = "returned"
    /\ UNCHANGED <<state, call, pre, res, seen, spent, disk, preDisk, mempool, produced, ret,
                   hf, preHf, thr, lock,
                   prod, peer, sink, locks, cstate>>

\* rollback_to, line 87: no entry is left, Ok(())
RollbackDone ==
    /\ pc = "rollback_loop"
    /\ todo = {}
    /\ ioRes' = "Ok"
    /\ pc' = "returned"
    /\ UNCHANGED <<state, call, pre, res, seen, spent, disk, preDisk, todo, mempool, produced, ret,
                   hf, preHf, thr, lock,
                   prod, peer, sink, locks, cstate>>

\* the caller of a ChainDB operation goes on
ReturnDb ==
    /\ pc = "returned"
    /\ pc' = "idle"
    /\ call' = NoCall
    /\ pre' = EmptyState
    /\ res' = FALSE
    /\ preDisk' = EmptyMap
    /\ ioRes' = "none"
    /\ UNCHANGED <<state, seen, spent, disk, todo, mempool, produced, ret,
                   hf, preHf, thr, lock,
                   prod, peer, sink, locks, cstate>>

\* the process stops inside append_block or rollback_to
Crash ==
    /\ pc \in {"write_block", "write_state", "rollback_loop"}
    /\ pc' = "crashed"
    /\ todo' = {}
    /\ UNCHANGED <<state, call, pre, res, seen, spent, disk, preDisk, ioRes, mempool, produced, ret,
                   hf, preHf, thr, lock,
                   prod, peer, sink, locks, cstate>>

\* the node starts again on the same directory: Ledger::new, ChainDB::open
Restart ==
    /\ pc \in {"crashed", "panicked"}
    /\ pc' = "idle"
    /\ state' = EmptyState
    /\ call' = NoCall
    /\ pre' = EmptyState
    /\ res' = FALSE
    /\ preDisk' = EmptyMap
    /\ ioRes' = "none"
    /\ UNCHANGED <<seen, spent, disk, todo, mempool, produced, ret,
                   hf, preHf, thr, lock,
                   prod, peer, sink, locks, cstate>>

NextStore ==
    \/ CallAppendBlock
    \/ Serialize
    \/ WriteBlock
    \/ WriteBlockFails
    \/ WriteState
    \/ WriteStateFails
    \/ CallRollbackTo
    \/ ReadDir
    \/ RollbackStep
    \/ RemoveFails
    \/ RollbackDone
    \/ ReturnDb
    \/ Crash
    \/ Restart

SpecStore == Init /\ [][NextStore]_vars

---------------------------------------------------------------------------
(* The Ledger persisting through the ChainDB: apply_block_with_db with a   *)
(* store, rollback_to and restore_from_db; the file system reports no      *)
(* error and the process does not stop.                                    *)

Mint2 == [id |-> 2, inputs |-> <<>>,
          outputs |-> <<[address |-> "B", amount |-> 100]>>]
BurnBoth == [id |-> 4, inputs |-> <<<<1, 0>>, <<2, 0>>>>, outputs |-> <<>>]

PersistBlocks ==
    [id : BlockIdRange,
     transactions : {<<>>, <<Coinbase>>, <<Coinbase, BurnBoth>>, <<Mint2, BurnBoth>>}]

\* a caller invokes ledger.apply_block_with_db(&block, Some(&mut db))
CallApplyBlockWithDb ==
    /\ pc = "idle"
    /\ \E b \in PersistBlocks : call' = [op |-> "apply_block_with_db", block |-> b]
    /\ pc' = "called"
    /\ pre' = state
    /\ preDisk' = disk
    /\ UNCHANGED <<state, res, seen, spent, disk, todo, ioRes, mempool, produced, ret,
                   hf, preHf, thr, lock,
                   prod, peer, sink, locks, cstate>>

\* apply_block_with_db, lines 242-248: the loop of apply_block, then
\* db.append_block(block, &self.state) when every transaction applied
RunApplyLoop ==
    /\ pc = "called"
    /\ call.op = "apply_block_with_db"
    /\ LET r == ApplyBlock(state, call.block)
       IN  /\ state' = r.state
           /\ res' = IF r.ok THEN res ELSE FALSE
           /\ pc' = IF r.ok THEN "appending" ELSE "returned"
    /\ UNCHANGED <<call, pre, seen, spent, disk, preDisk, todo, ioRes, mempool, produced, ret,
                   hf, preHf, thr, lock,
                   prod, peer, sink, locks, cstate>>

\* a caller invokes ledger.restore_from_db(&db, block_id)
CallRestoreFromDb ==
    /\ pc = "idle"
    /\ \E id \in BlockIdRange : call' = [op |-> "restore_from_db", id |-> id]
    /\ pc' = "called"
    /\ pre' = state
    /\ preDisk' = disk
    /\ UNCHANGED <<state, res, seen, spent, disk, todo, ioRes, mempool, produced, ret,
                   hf, preHf, thr, lock,
                   prod, peer, sink, locks, cstate>>

\* Ledger::restore_from_db: load_state(block_id)?, then self.state = state
RunRestoreFromDb ==
    /\ pc = "called"
    /\ call.op = "restore_from_db"
    /\ LET l == LoadState(disk, call.id)
       IN  /\ state' = IF l.tag = "Ok" THEN l.value ELSE state
           /\ ioRes' = IF l.tag = "Ok" THEN "Ok" ELSE "Err"
           /\ pc' = IF l.tag = "Panic" THEN "panicked" ELSE "returned"
    /\ UNCHANGED <<call, pre, res, seen, spent, disk, preDisk, todo, mempool, produced, ret,
                   hf, preHf, thr, lock,
                   prod, peer, sink, locks, cstate>>

NextPersist ==
    \/ CallApplyBlockWithDb
    \/ RunApplyLoop
    \/ Serialize
    \/ WriteBlock
    \/ WriteState
    \/ CallRollbackTo
    \/ ReadDir
    \/ RollbackStep
    \/ RollbackDone
    \/ CallRestoreFromDb
    \/ RunRestoreFromDb
    \/ ReturnDb

SpecPersist == Init /\ [][NextPersist]_vars

\* the ledger state after apply_block of each stored block listed in ids, in
\* turn, starting from s
RECURSIVE Replay(_, _, _)
Replay(d, ids, s) ==
    IF ids = <<>>
    THEN s
    ELSE Replay(d, Tail(ids), ApplyBlock(s, LoadBlock(d, Head(ids)).value).state)

\* C9: after any sequence of apply_block_with_db (with a store), rollback_to
\* and restore_from_db, for every id i of block_ids() load_block(i) and
\* load_state(i) succeed and load_state(i) is the state reached by replaying,
\* from the empty ledger, the stored blocks with ids <= i in ascending order.
C9_StoreMatchesReplay ==
    (pc \in {"idle", "returned"}) =>
        /\ \A i \in Range(BlockIdsOf(disk)) :
              LoadBlock(disk, i).tag = "Ok" /\ LoadState(disk, i).tag = "Ok"
        /\ \A i \in Range(BlockIdsOf(disk)) :
              LoadState(disk, i).value =
                  Replay(disk, SelectSeq(BlockIdsOf(disk), LAMBDA j : j <= i), EmptyState)

---------------------------------------------------------------------------
(* Claims about the ChainDB. *)

HasFile(d, prefix, id) == <<prefix, id>> \in DOMAIN d

\* C7: in every directory a reader can observe (no writer inside an
\* operation) and in every directory left behind when the process stops
\* inside append_block or rollback_to, block_<i> exists iff state_<i> exists.
C7_BlockIffState ==
    (pc \in {"idle", "returned", "crashed"}) =>
        \A i \in BlockIdRange : HasFile(disk, "block", i) <=> HasFile(disk, "state", i)

RolledBackOk == pc = "returned" /\ call.op = "rollback_to" /\ ioRes = "Ok"

C10_AppendRoundTrip ==
    (call.op = "append_block" /\ (pc = "panicked" \/ (pc = "returned" /\ ioRes = "Ok")))
        => /\ pc = "returned"
           /\ LoadBlock(disk, call.block.id) = [tag |-> "Ok", value |-> call.block]
           /\ LoadState(disk, call.block.id) = [tag |-> "Ok", value |-> call.state]

---------------------------------------------------------------------------
(* Readers of the ChainDB: load_block and load_state, on the directories   *)
(* that append_block, rollback_to and failed writes leave behind.          *)

\* a caller invokes db.load_block(id)
CallLoadBlock ==
    /\ pc = "idle"
    /\ \E id \in BlockIdRange : call' = [op |-> "load_block", id |-> id]
    /\ pc' = "called"
    /\ preDisk' = disk
    /\ UNCHANGED <<state, pre, res, seen, spent, disk, todo, ioRes, mempool, produced, ret,
                   hf, preHf, thr, lock,
                   prod, peer, sink, locks, cstate>>

\* a caller invokes db.load_state(id)
CallLoadState ==
    /\ pc = "idle"
    /\ \E id \in BlockIdRange : call' = [op |-> "load_state", id |-> id]
    /\ pc' = "called"
    /\ preDisk' = disk
    /\ UNCHANGED <<state, pre, res, seen, spent, disk, todo, ioRes, mempool, produced, ret,
                   hf, preHf, thr, lock,
                   prod, peer, sink, locks, cstate>>

\* what the caller of a load gets: File::open(..)? returns the NotFound
\* io::Error, Ok(..) wraps the value, and unwrap() of a serde error unwinds
LoadOutcome(l) ==
    IF l.tag = "Panic"
    THEN [pc |-> "panicked", ioRes |-> "none"]
    ELSE [pc |-> "returned", ioRes |-> l.tag]

\* the body of ChainDB::load_block
RunLoadBlock ==
    /\ pc = "called"
    /\ call.op = "load_block"
    /\ LET o == LoadOutcome(LoadBlock(disk, call.id))
       IN  /\ pc' = o.pc
           /\ ioRes' = o.ioRes
    /\ UNCHANGED <<state, call, pre, res, seen, spent, disk, preDisk, todo, mempool, produced, ret,
                   hf, preHf, thr, lock,
                   prod, peer, sink, locks, cstate>>

\* the body of ChainDB::load_state
RunLoadState ==
    /\ pc = "called"
    /\ call.op = "load_state"
    /\ LET o == LoadOutcome(LoadState(disk, call.id))
       IN  /\ pc' = o.pc
           /\ ioRes' = o.ioRes
    /\ UNCHANGED <<state, call, pre, res, seen, spent, disk, preDisk, todo, mempool, produced, ret,
                   hf, preHf, thr, lock,
                   prod, peer, sink, locks, cstate>>

NextStoreLoad ==
    \/ NextStore
    \/ CallLoadBlock
    \/ RunLoadBlock
    \/ CallLoadState
    \/ RunLoadState

SpecStoreLoad == Init /\ [][NextStoreLoad]_vars

LoadCalled == call.op \in {"load_block", "load_state"}

\* the file load_block(id) or load_state(id) opens
LoadedFile ==
    IF call.op = "load_block" THEN <<"block", call.id>> ELSE <<"state", call.id>>

\* the type the bytes are deserialized into
LoadedType == IF call.op = "load_block" THEN "Block" ELSE "LedgerState"

\* C11: load_block(id) and load_state(id) never panic: an absent file gives
\* the NotFound error, and a file that exists but does not deserialize gives
\* a Corrupted error value to the caller.
C11_LoadNeverPanics ==
    (LoadCalled /\ pc \in {"returned", "panicked"}) =>
        /\ pc = "returned"
        /\ LoadedFile \notin DOMAIN disk => ioRes = "NotFound"
        /\ (/\ LoadedFile \in DOMAIN disk
            /\ FromSlice(disk[LoadedFile], LoadedType).tag = "Err")
              => ioRes = "Corrupted"

---------------------------------------------------------------------------
(* The Ledger persisting through a ChainDB whose writes can fail.          *)

NextPersistFaulty ==
    \/ NextPersist
    \/ WriteBlockFails
    \/ WriteStateFails

SpecPersistFaulty == Init /\ [][NextPersistFaulty]_vars

\* apply_block_with_db has returned and its append_block returned an error
PersistFailed ==
    pc = "returned" /\ call.op = "apply_block_with_db" /\ ioRes = "Err"

\* C12: when the append fails while a block is persisted, the persisting
\* apply does not report success and the in-memory LedgerState is the state
\* from before the block was applied.
C12_AppendFailureReachesCaller ==
    PersistFailed => (res = FALSE /\ state = pre)

---------------------------------------------------------------------------
(* The block producer: src/src/consensus.rs, src/src/mempool.rs.  Peers    *)
(* hand transactions to the mempool; in a slot it leads, the node builds a *)
(* block from the mempool and applies it to its ledger.                    *)

\* Mempool::new(max_size)
MaxMempool == 2
\* the producer is followed for MaxProduced blocks
MaxProduced == 3
\* rand::random::<u64>() is drawn from 0..MaxRandomId
MaxRandomId == 3

\* the transactions peers send
ProducerTransactions == {Coinbase, Mint2, Burn}

\* Ledger::tip_hash: the highest tx id among the keys of utxos, or 0
TipHash(s) ==
    IF DOMAIN s.utxos = {}
    THEN 0
    ELSE CHOOSE n \in {k[1] : k \in DOMAIN s.utxos} :
            \A k \in DOMAIN s.utxos : k[1] <= n

\* Mempool::add_transaction: push_back unless the pool is full
AddTransaction(pool, tx) ==
    IF Len(pool) >= MaxMempool THEN pool ELSE Append(pool, tx)

\* Block::new_from_mempool: None for an empty mempool, else a block of all
\* the pending transactions with id tip_hash() + 1
NewFromMempool(s, pool) ==
    IF pool = <<>>
    THEN [tag |-> "None"]
    ELSE [tag |-> "Some",
          block |-> [id |-> TipHash(s) + 1, transactions |-> pool]]

\* EraLogic::validate_block: every era returns true
EraValidateBlock(block) == TRUE

\* Ledger::validate_transaction_with_protocol: the era accepts the empty
\* wallet::Transaction, then no output may have amount 0
ValidateTransactionWithProtocol(tx) ==
    \A i \in DOMAIN tx.outputs : tx.outputs[i].amount # 0

\* Network::handle_peer_message, PeerMessage::Transaction(tx)
ReceiveTransaction ==
    /\ pc = "idle"
    /\ \E tx \in ProducerTransactions : mempool' = AddTransaction(mempool, tx)
    /\ UNCHANGED <<state, pc, call, pre, res, seen, spent, disk, preDisk, todo,
                   ioRes, produced, ret,
                   hf, preHf, thr, lock,
                   prod, peer, sink, locks, cstate>>

\* one turn of the loop of run_slot_leadership (run_praos and
\* run_ouroboros_loop have the same body) in a slot the node leads: build
\* the block, validate it, apply it; the mempool is left as it is
ProduceSlot ==
    /\ pc = "idle"
    /\ Len(produced) < MaxProduced
    /\ LET b == NewFromMempool(state, mempool)
       IN  IF b.tag = "None"
           THEN UNCHANGED <<state, produced,
                   hf, preHf, thr, lock,
                   prod, peer, sink, locks, cstate>>
           ELSE /\ produced' = Append(produced, b.block.id)
                /\ state' = IF EraValidateBlock(b.block)
                            THEN ApplyBlock(state, b.block).state
                            ELSE state
    /\ UNCHANGED <<pc, call, pre, res, seen, spent, disk, preDisk, todo, ioRes,
                   mempool, ret,
                   hf, preHf, thr, lock,
                   prod, peer, sink, locks, cstate>>

\* Consensus::produce_block_from_mempool: the valid pending transactions in
\* a block with a random id; the ledger is only read
ProduceBlockFromMempool ==
    /\ pc = "idle"
    /\ Len(produced) < MaxProduced
    /\ SelectSeq(mempool, ValidateTransactionWithProtocol) # <<>>
    /\ \E id \in 0..MaxRandomId : produced' = Append(produced, id)
    /\ UNCHANGED <<state, pc, call, pre, res, seen, spent, disk, preDisk, todo,
                   ioRes, mempool, ret,
                   hf, preHf, thr, lock,
                   prod, peer, sink, locks, cstate>>

NextProducer ==
    \/ ReceiveTransaction
    \/ ProduceSlot
    \/ ProduceBlockFromMempool

SpecProducer == Init /\ [][NextProducer]_vars

\* C13: across slots the ids of the blocks the producer builds are strictly
\* increasing: every newly produced block has an id greater than the id of
\* every block produced before it.
C13_ProducedIdsIncreasing ==
    \A i, j \in DOMAIN produced : i < j => produced[i] < produced[j]

---------------------------------------------------------------------------
(* Stake pools and delegation: LedgerState::apply_certificate and          *)
(* LedgerState::process_pool_retirements, src/src/ledger.rs.               *)

\* epochs are 0..MaxEpoch
MaxEpoch == 2

Epochs == 0..MaxEpoch

PoolIds == {"p1", "p2"}

Delegators == {"d1"}

\* Option<u64>
None == [some |-> FALSE, value |-> 0]
Some(e) == [some |-> TRUE, value |-> e]

\* StakePoolRegistration { pool_id, owner, pledge, cost, margin,
\* reward_account }: only pool_id is read by the ledger
Registrations == [pool_id : PoolIds, owner : {"o"}]

\* Certificate
Certificates ==
    [kind : {"PoolRegistration"}, reg : Registrations]
    \cup [kind : {"PoolRetirement"}, pool_id : PoolIds, retirement_epoch : Epochs]
    \cup [kind : {"Delegation"}, delegator : Delegators, pool_id : PoolIds]

\* HashMap::insert
MapInsert(m, k, v) == [x \in (DOMAIN m) \cup {k} |-> IF x = k THEN v ELSE m[x]]

Ok == [tag |-> "Ok"]
Err(msg) == [tag |-> "Err", value |-> msg]

\* a plausible slip: retirement in the current epoch is accepted
MutRetirementAccepted(pool, e, current_epoch) == pool.active /\ e >= current_epoch

\* the test of the PoolRetirement arm
RetirementAccepted(pool, e, current_epoch) == pool.active /\ e > current_epoch

\* a plausible slip: any known pool can be delegated to
MutDelegationAccepted(pool) == TRUE

\* the test of the Delegation arm
DelegationAccepted(pool) == pool.active

\* LedgerState::apply_certificate: the Result and the state left behind
ApplyCertificate(s, cert, current_epoch) ==
    CASE cert.kind = "PoolRegistration" ->
            [result |-> Ok,
             state |-> [s EXCEPT !.stake_pools =
                 MapInsert(s.stake_pools, cert.reg.pool_id,
                     [registration |-> cert.reg, active |-> TRUE,
                      retirement_epoch |-> None])]]
      [] cert.kind = "PoolRetirement" ->
            IF cert.pool_id \notin DOMAIN s.stake_pools
            THEN [result |-> Err("Pool not found"), state |-> s]
            ELSE IF RetirementAccepted(s.stake_pools[cert.pool_id],
                                       cert.retirement_epoch, current_epoch)
            THEN [result |-> Ok,
                  state |-> [s EXCEPT
                      !.stake_pools[cert.pool_id].retirement_epoch =
                          Some(cert.retirement_epoch),
                      !.pool_retirements =
                          MapInsert(s.pool_retirements, cert.pool_id,
                                    cert.retirement_epoch)]]
            ELSE [result |-> Err("Invalid retirement epoch or pool not active"),
                  state |-> s]
      [] cert.kind = "Delegation" ->
            IF cert.pool_id \notin DOMAIN s.stake_pools
            THEN [result |-> Err("Pool not found"), state |-> s]
            ELSE IF DelegationAccepted(s.stake_pools[cert.pool_id])
            THEN [result |-> Ok,
                  state |-> [s EXCEPT !.delegations =
                      MapInsert(s.delegations, cert.delegator, cert.pool_id)]]
            ELSE [result |-> Err("Cannot delegate to inactive pool"),
                  state |-> s]

\* a plausible slip: a pool retires only after its retirement epoch
MutRetiring(pool, current_epoch) ==
    pool.retirement_epoch.some /\ pool.retirement_epoch.value < current_epoch

\* the filter of process_pool_retirements: retirement_epoch is Some(epoch)
\* with epoch <= current_epoch
Retiring(pool, current_epoch) ==
    pool.retirement_epoch.some /\ pool.retirement_epoch.value <= current_epoch

\* HashMap::retain(|_, epoch| epoch > current_epoch)
RetainAfter(m, current_epoch) ==
    [k \in {x \in DOMAIN m : m[x] > current_epoch} |-> m[k]]

\* LedgerState::process_pool_retirements
ProcessPoolRetirements(s, current_epoch) ==
    [s EXCEPT
        !.stake_pools =
            [p \in DOMAIN s.stake_pools |->
                IF Retiring(s.stake_pools[p], current_epoch)
                THEN [s.stake_pools[p] EXCEPT !.active = FALSE]
                ELSE s.stake_pools[p]],
        !.pool_retirements = RetainAfter(s.pool_retirements, current_epoch)]

\* a caller invokes state.apply_certificate(&cert, current_epoch)
CallApplyCertificate ==
    /\ pc = "idle"
    /\ \E cert \in Certificates, e \in Epochs :
          call' = [op |-> "apply_certificate", cert |-> cert, current_epoch |-> e]
    /\ pc' = "called"
    /\ pre' = state
    /\ UNCHANGED <<state, res, seen, spent, disk, preDisk, todo, ioRes,
                   mempool, produced, ret,
                   hf, preHf, thr, lock,
                   prod, peer, sink, locks, cstate>>

\* the body of LedgerState::apply_certificate
RunApplyCertificate ==
    /\ pc = "called"
    /\ call.op = "apply_certificate"
    /\ LET r == ApplyCertificate(state, call.cert, call.current_epoch)
       IN  /\ state' = r.state
           /\ ret' = r.result
    /\ pc' = "returned"
    /\ UNCHANGED <<call, pre, res, seen, spent, disk, preDisk, todo, ioRes,
                   mempool, produced,
                   hf, preHf, thr, lock,
                   prod, peer, sink, locks, cstate>>

\* a caller invokes state.process_pool_retirements(current_epoch)
CallProcessPoolRetirements ==
    /\ pc = "idle"
    /\ \E e \in Epochs :
          call' = [op |-> "process_pool_retirements", current_epoch |-> e]
    /\ pc' = "called"
    /\ pre' = state
    /\ UNCHANGED <<state, res, seen, spent, disk, preDisk, todo, ioRes,
                   mempool, produced, ret,
                   hf, preHf, thr, lock,
                   prod, peer, sink, locks, cstate>>

\* the body of LedgerState::process_pool_retirements
RunProcessPoolRetirements ==
    /\ pc = "called"
    /\ call.op = "process_pool_retirements"
    /\ state' = ProcessPoolRetirements(state, call.current_epoch)
    /\ ret' = [tag |-> "Unit"]
    /\ pc' = "returned"
    /\ UNCHANGED <<call, pre, res, seen, spent, disk, preDisk, todo, ioRes,
                   mempool, produced,
                   hf, preHf, thr, lock,
                   prod, peer, sink, locks, cstate>>

\* the caller has the returned value and goes on
ReturnValue ==
    /\ pc = "returned"
    /\ pc' = "idle"
    /\ call' = NoCall
    /\ pre' = EmptyState
    /\ ret' = NoValue
    /\ UNCHANGED <<state, res, seen, spent, disk, preDisk, todo, ioRes,
                   mempool, produced,
                   hf, preHf, thr, lock,
                   prod, peer, sink, locks, cstate>>

NextPools ==
    \/ CallApplyCertificate
    \/ RunApplyCertificate
    \/ CallProcessPoolRetirements
    \/ RunProcessPoolRetirements
    \/ ReturnValue

SpecPools == Init /\ [][NextPools]_vars

\* C14: every entry delegations[d] = p refers to a pool p that exists in
\* stake_pools and has active = true.
C14_DelegationToActivePool ==
    \A d \in DOMAIN state.delegations :
        /\ state.delegations[d] \in DOMAIN state.stake_pools
        /\ state.stake_pools[state.delegations[d]].active

\* C15: every entry pool_retirements[p] = e has
\* stake_pools[p].retirement_epoch = Some(e), also after the re-registration
\* of a pool that has a pending retirement.
C15_RetirementEntryMatchesPool ==
    \A p \in DOMAIN state.pool_retirements :
        /\ p \in DOMAIN state.stake_pools
        /\ state.stake_pools[p].retirement_epoch = Some(state.pool_retirements[p])

\* apply_certificate has returned for a certificate of this kind
CertReturned(kind) ==
    pc = "returned" /\ call.op = "apply_certificate" /\ call.cert.kind = kind

\* the pool named by the certificate was registered and active at the call
PoolWasActive ==
    /\ call.cert.pool_id \in DOMAIN pre.stake_pools
    /\ pre.stake_pools[call.cert.pool_id].active

\* C16: apply_certificate(PoolRetirement{p, e}, current_epoch) succeeds iff p
\* exists in stake_pools, is active and e > current_epoch; on success
\* stake_pools[p].retirement_epoch = Some(e) and pool_retirements[p] = e; on
\* rejection it returns an error and the LedgerState is unchanged.
C16_RetirementIffActiveAndLater ==
    CertReturned("PoolRetirement") =>
        LET p == call.cert.pool_id
            e == call.cert.retirement_epoch
            ok == PoolWasActive /\ e > call.current_epoch
        IN  /\ ret.tag = "Ok" <=> ok
            /\ ok => /\ p \in DOMAIN state.stake_pools
                     /\ state.stake_pools[p].retirement_epoch = Some(e)
                     /\ p \in DOMAIN state.pool_retirements
                     /\ state.pool_retirements[p] = e
            /\ ~ok => (ret.tag = "Err" /\ state = pre)

C16_Witness ==
    /\ CertReturned("PoolRetirement")
    /\ PoolWasActive
    /\ call.cert.retirement_epoch = call.current_epoch
    /\ call.current_epoch > 0
    /\ ret.tag = "Err"
    /\ state = pre

\* C17: apply_certificate(Delegation{d, p}, _) succeeds iff p exists in
\* stake_pools and is active, recording delegations[d] = p; a delegation to
\* an unknown pool or to a pool made inactive by process_pool_retirements
\* returns an error and leaves the LedgerState unchanged.
C17_DelegationIffActivePool ==
    CertReturned("Delegation") =>
        /\ ret.tag = "Ok" <=> PoolWasActive
        /\ PoolWasActive =>
              /\ call.cert.delegator \in DOMAIN state.delegations
              /\ state.delegations[call.cert.delegator] = call.cert.pool_id
        /\ ~PoolWasActive => (ret.tag = "Err" /\ state = pre)

C17_Witness ==
    /\ CertReturned("Delegation")
    /\ call.cert.pool_id \in DOMAIN pre.stake_pools
    /\ ~pre.stake_pools[call.cert.pool_id].active
    /\ ret = Err("Cannot delegate to inactive pool")
    /\ state = pre

\* process_pool_retirements has returned
RetirementsProcessed ==
    pc = "returned" /\ call.op = "process_pool_retirements"

\* C18: a pool is active from its registration and becomes inactive exactly
\* when process_pool_retirements(E) is called with E >= its
\* retirement_epoch: no other operation sets active to false, a call with
\* E < retirement_epoch or with no retirement scheduled leaves the pool
\* active, and after a call with E no pool_retirements entry with
\* epoch <= E remains.
C18_InactiveExactlyAtRetirement ==
    (pc = "returned" /\ call.op \in {"apply_certificate", "process_pool_retirements"}) =>
        /\ \A p \in DOMAIN pre.stake_pools :
              pre.stake_pools[p].active =>
                  /\ p \in DOMAIN state.stake_pools
                  /\ ~state.stake_pools[p].active <=>
                        /\ RetirementsProcessed
                        /\ pre.stake_pools[p].retirement_epoch.some
                        /\ call.current_epoch >= pre.stake_pools[p].retirement_epoch.value
        /\ CertReturned("PoolRegistration") =>
              /\ call.cert.reg.pool_id \in DOMAIN state.stake_pools
              /\ state.stake_pools[call.cert.reg.pool_id].active
        /\ RetirementsProcessed =>
              \A p \in DOMAIN state.pool_retirements :
                  state.pool_retirements[p] > call.current_epoch

C18_Witness ==
    /\ RetirementsProcessed
    /\ \E p, q \in DOMAIN pre.stake_pools :
          /\ pre.stake_pools[p].active
          /\ pre.stake_pools[p].retirement_epoch = Some(call.current_epoch)
          /\ ~state.stake_pools[p].active
          /\ pre.stake_pools[q].active
          /\ pre.stake_pools[q].retirement_epoch.some
          /\ pre.stake_pools[q].retirement_epoch.value > call.current_epoch
          /\ state.stake_pools[q].active
          /\ DOMAIN pre.pool_retirements = {p, q}
          /\ DOMAIN state.pool_retirements = {q}

---------------------------------------------------------------------------
(* Chain selection: select_chain, src/src/ledger.rs.                       *)

\* a candidate chain has at most MaxChainLen blocks
MaxChainLen == 2
\* select_chain is given at most MaxCandidates chains
MaxCandidates == 2

\* Block { id, header, transactions }: select_chain reads the id and the
\* number of transactions
ChainBlocks == [id : {1, 2}, transactions : {<<>>, <<Coinbase>>}]

\* Chain { blocks }
Chains == [blocks : SeqsUpTo(ChainBlocks, MaxChainLen)]

\* Ord::cmp on usize / u64
CmpNat(x, y) == IF x < y THEN "Less" ELSE IF x > y THEN "Greater" ELSE "Equal"

\* the number of distinct block ids of the chain
Density(c) == Cardinality({c.blocks[i].id : i \in DOMAIN c.blocks})

RECURSIVE SumTxsFrom(_, _)
SumTxsFrom(blocks, i) ==
    IF i > Len(blocks)
    THEN 0
    ELSE Len(blocks[i].transactions) + SumTxsFrom(blocks, i + 1)

\* the total number of transactions of the chain
TotalTxs(c) == SumTxsFrom(c.blocks, 1)

\* the id of the last block, or 0 for a chain with no block
TipId(c) == IF c.blocks = <<>> THEN 0 ELSE c.blocks[Len(c.blocks)].id

\* a plausible slip: the higher tip id wins
MutTipOrder(tip_a, tip_b) == CmpNat(tip_a, tip_b)

\* the tie-break: tip_b.cmp(&tip_a), the lower tip id wins
TipOrder(tip_a, tip_b) == CmpNat(tip_b, tip_a)

\* the closure handed to max_by
ChainCmp(a, b) ==
    IF Len(a.blocks) # Len(b.blocks) THEN CmpNat(Len(a.blocks), Len(b.blocks))
    ELSE IF Density(a) # Density(b) THEN CmpNat(Density(a), Density(b))
    ELSE IF TotalTxs(a) # TotalTxs(b) THEN CmpNat(TotalTxs(a), TotalTxs(b))
    ELSE TipOrder(TipId(a), TipId(b))

\* Iterator::max_by from the i-th element on: the element kept so far is
\* replaced unless it compares Greater, so the last maximum is returned
RECURSIVE MaxByFrom(_, _, _)
MaxByFrom(chains, i, best) ==
    IF i > Len(chains)
    THEN best
    ELSE MaxByFrom(chains, i + 1,
             IF ChainCmp(chains[best], chains[i]) = "Greater" THEN best ELSE i)

\* select_chain: None for no candidate, else a reference to a candidate
SelectChain(chains) ==
    IF chains = <<>>
    THEN [tag |-> "None"]
    ELSE LET i == MaxByFrom(chains, 2, 1)
         IN  [tag |-> "Some", index |-> i, chain |-> chains[i]]

\* a caller invokes select_chain(&chains)
CallSelectChain ==
    /\ pc = "idle"
    /\ \E cs \in SeqsUpTo(Chains, MaxCandidates) :
          call' = [op |-> "select_chain", chains |-> cs]
    /\ pc' = "called"
    /\ UNCHANGED <<state, pre, res, seen, spent, disk, preDisk, todo, ioRes,
                   mempool, produced, ret,
                   hf, preHf, thr, lock,
                   prod, peer, sink, locks, cstate>>

\* the body of select_chain
RunSelectChain ==
    /\ pc = "called"
    /\ call.op = "select_chain"
    /\ ret' = SelectChain(call.chains)
    /\ pc' = "returned"
    /\ UNCHANGED <<state, call, pre, res, seen, spent, disk, preDisk, todo,
                   ioRes, mempool, produced,
                   hf, preHf, thr, lock,
                   prod, peer, sink, locks, cstate>>

NextSelect ==
    \/ CallSelectChain
    \/ RunSelectChain
    \/ ReturnValue

SpecSelect == Init /\ [][NextSelect]_vars

ChainSelected == pc = "returned" /\ call.op = "select_chain"

\* the candidates listed in another order
Reorderings(chains) ==
    {[i \in DOMAIN chains |-> chains[f[i]]] :
        f \in {g \in [DOMAIN chains -> DOMAIN chains] :
                  \A i, j \in DOMAIN chains : g[i] = g[j] => i = j}}

\* C19: the comparison used by select_chain is a total order on chains:
\* reflexive, transitive and antisymmetric (two chains compare equal only if
\* they are the same chain), and select_chain returns the same chain for the
\* same candidates whatever the order in which they are listed.
C19_ComparisonIsTotalOrder ==
    ChainSelected =>
        LET cs == Range(call.chains)
        IN  /\ \A a \in cs : ChainCmp(a, a) = "Equal"
            /\ \A a, b, c \in cs :
                  (ChainCmp(a, b) # "Greater" /\ ChainCmp(b, c) # "Greater")
                      => ChainCmp(a, c) # "Greater"
            /\ \A a, b \in cs : ChainCmp(a, b) = "Equal" => a = b
            /\ \A r \in Reorderings(call.chains) :
                  ret.tag = "Some" => SelectChain(r).chain = ret.chain

\* chain c is strictly above chain d under the key (block count, number of
\* unique block ids, total transaction count, lower tip id)
StrictlyAbove(c, d) ==
    \/ Len(c.blocks) > Len(d.blocks)
    \/ /\ Len(c.blocks) = Len(d.blocks)
       /\ \/ Density(c) > Density(d)
          \/ /\ Density(c) = Density(d)
             /\ \/ TotalTxs(c) > TotalTxs(d)
                \/ TotalTxs(c) = TotalTxs(d) /\ TipId(c) < TipId(d)

---------------------------------------------------------------------------
(* The hard fork combinator.  The repository holds two of them, and two    *)
(* Protocol types around them:                                             *)
(*   "single": src/src/protocol.rs, one pending transition in the fields   *)
(*             next_era and transition_epoch;                              *)
(*   "map":    src/src/protocol/hard_fork_combinator.rs, a BTreeMap from   *)
(*             activation epoch to transition.                             *)
(* Which one a build links is not fixed by the sources, so the variant is  *)
(* chosen when the Protocol is constructed.  Both keep their pending       *)
(* transitions here as a map from activation epoch to (era, logic); the    *)
(* "single" variant never holds more than one entry.                       *)

\* a run makes at most MaxSchedules schedule_transition calls
MaxSchedules == 2

\* the EraLogic that HardForkCombinator::new and schedule_transition of
\* protocol.rs box for an era
LogicOf(era) ==
    CASE era = "Byron" -> "ByronEra"
      [] era = "Shelley" -> "ShelleyEra"
      [] era = "Allegra" -> "AllegraEra"
      [] era = "Mary" -> "MaryEra"
      [] era = "Alonzo" -> "AlonzoEra"
      [] era = "Conway" -> "ConwayProtocol"

\* the (era, logic) pairs a Protocol starts from in the runs followed here
StartEras ==
    [variant : {"single"}, era : {"Byron", "Shelley"}, logic : {"none"}]
    \cup [variant : {"map"}, era : {"Era"}, logic : {"allegra::AllegraEra"}]

\* the (era, logic) pairs handed to schedule_transition; Era of
\* protocol/mod.rs is a unit struct
UpgradeEras ==
    [variant : {"single"}, era : {"Shelley", "Conway"}, logic : {"none"}]
    \cup [variant : {"map"}, era : {"Era"},
          logic : {"mary::MaryEra", "BabbageProtocol"}]

\* the logic stored for a start or upgrade choice
ChosenLogic(c) == IF c.variant = "single" THEN LogicOf(c.era) ELSE c.logic

\* HardForkCombinator::new; clock, the epoch of the caller's last
\* check_transition, and history, the schedule_transition calls so far,
\* are kept beside the fields
HardForkNew(c) ==
    [variant |-> c.variant, current_era |-> c.era, era_logic |-> ChosenLogic(c),
     transitions |-> EmptyMap, clock |-> 0,
     initial |-> [era |-> c.era, logic |-> ChosenLogic(c)], history |-> <<>>]

\* HardForkCombinator::schedule_transition: protocol.rs overwrites next_era
\* and transition_epoch; hard_fork_combinator.rs does BTreeMap::insert
ScheduleTransition(h, c, epoch) ==
    LET t == [era |-> c.era, logic |-> ChosenLogic(c)]
    IN  [h EXCEPT !.transitions =
            IF h.variant = "single"
            THEN MapInsert(EmptyMap, epoch, t)
            ELSE MapInsert(h.transitions, epoch, t)]

\* the first key of the BTreeMap (the only entry of the "single" variant)
FirstEpoch(h) ==
    CHOOSE k \in DOMAIN h.transitions : \A j \in DOMAIN h.transitions : k <= j

\* a plausible slip: the transition is adopted one epoch late
MutTransitionDue(current_epoch, epoch) == current_epoch > epoch

\* the test of check_transition
TransitionDue(current_epoch, epoch) == current_epoch >= epoch

\* HardForkCombinator::check_transition: the earliest pending transition is
\* adopted and removed when its epoch has come; one call adopts at most one
CheckTransition(h, current_epoch) ==
    IF DOMAIN h.transitions = {}
    THEN h
    ELSE LET epoch == FirstEpoch(h)
         IN  IF TransitionDue(current_epoch, epoch)
             THEN [h EXCEPT
                      !.current_era = h.transitions[epoch].era,
                      !.era_logic = h.transitions[epoch].logic,
                      !.transitions =
                          [k \in (DOMAIN h.transitions) \ {epoch} |->
                              h.transitions[k]]]
             ELSE h

\* the transactions handed to the era rules: no or one input, and outputs
\* with amount 0 or 5
EraTransactions ==
    [id : {1}, inputs : {<<>>, <<<<0, 0>>>>},
     outputs : SeqsUpTo([address : {"X"}, amount : {0, 5}], 2)]

\* EraLogic::validate_transaction of each implementation
EraValidateTransaction(logic, tx) ==
    CASE logic = "ByronEra" -> tx.inputs # <<>> /\ tx.outputs # <<>>
      [] logic \in {"ShelleyEra", "AlonzoEra", "AllegraEra", "MaryEra"} ->
            /\ tx.inputs # <<>>
            /\ \A i \in DOMAIN tx.outputs : tx.outputs[i].amount > 0
      [] logic \in {"ConwayProtocol", "BabbageProtocol",
                    "allegra::AllegraEra", "mary::MaryEra"} -> TRUE

Unit == [tag |-> "Unit"]

\* Protocol::new
ProtocolNew ==
    /\ pc = "idle"
    /\ hf = NoHardFork
    /\ \E c \in StartEras : hf' = HardForkNew(c)
    /\ UNCHANGED <<state, pc, call, pre, res, seen, spent, disk, preDisk, todo,
                   ioRes, mempool, produced, ret, preHf, thr, lock,
                   prod, peer, sink, locks, cstate>>

\* a caller invokes protocol.schedule_upgrade(era, epoch)
CallScheduleTransition ==
    /\ pc = "idle"
    /\ hf # NoHardFork
    /\ Len(hf.history) < MaxSchedules
    /\ \E c \in UpgradeEras, epoch \in Epochs :
          /\ c.variant = hf.variant
          /\ call' = [op |-> "schedule_transition", choice |-> c, epoch |-> epoch]
    /\ pc' = "called"
    /\ preHf' = hf
    /\ UNCHANGED <<state, pre, res, seen, spent, disk, preDisk, todo, ioRes,
                   mempool, produced, ret, hf, thr, lock,
                   prod, peer, sink, locks, cstate>>

\* the body of schedule_transition; it returns ()
RunScheduleTransition ==
    /\ pc = "called"
    /\ call.op = "schedule_transition"
    /\ hf' = [ScheduleTransition(hf, call.choice, call.epoch) EXCEPT
                 !.history = Append(hf.history,
                     [era |-> call.choice.era, logic |-> ChosenLogic(call.choice),
                      epoch |-> call.epoch])]
    /\ ret' = Unit
    /\ pc' = "returned"
    /\ UNCHANGED <<state, call, pre, res, seen, spent, disk, preDisk, todo,
                   ioRes, mempool, produced, preHf, thr, lock,
                   prod, peer, sink, locks, cstate>>

\* the slot loop invokes protocol.handle_upgrade(current_epoch); its
\* current_epoch never decreases
CallCheckTransition ==
    /\ pc = "idle"
    /\ hf # NoHardFork
    /\ \E e \in Epochs :
          /\ e >= hf.clock
          /\ call' = [op |-> "check_transition", epoch |-> e]
    /\ pc' = "called"
    /\ preHf' = hf
    /\ UNCHANGED <<state, pre, res, seen, spent, disk, preDisk, todo, ioRes,
                   mempool, produced, ret, hf, thr, lock,
                   prod, peer, sink, locks, cstate>>

\* the body of check_transition; it returns ()
RunCheckTransition ==
    /\ pc = "called"
    /\ call.op = "check_transition"
    /\ hf' = [CheckTransition(hf, call.epoch) EXCEPT !.clock = call.epoch]
    /\ ret' = Unit
    /\ pc' = "returned"
    /\ UNCHANGED <<state, call, pre, res, seen, spent, disk, preDisk, todo,
                   ioRes, mempool, produced, preHf, thr, lock,
                   prod, peer, sink, locks, cstate>>

\* a caller invokes protocol.validate_transaction(&tx)
CallProtocolValidateTransaction ==
    /\ pc = "idle"
    /\ hf # NoHardFork
    /\ \E tx \in EraTransactions :
          call' = [op |-> "protocol_validate_transaction", tx |-> tx]
    /\ pc' = "called"
    /\ preHf' = hf
    /\ UNCHANGED <<state, pre, res, seen, spent, disk, preDisk, todo, ioRes,
                   mempool, produced, ret, hf, thr, lock,
                   prod, peer, sink, locks, cstate>>

\* Protocol::validate_transaction: the current era logic decides
RunProtocolValidateTransaction ==
    /\ pc = "called"
    /\ call.op = "protocol_validate_transaction"
    /\ res' = EraValidateTransaction(hf.era_logic, call.tx)
    /\ pc' = "returned"
    /\ UNCHANGED <<state, call, pre, seen, spent, disk, preDisk, todo, ioRes,
                   mempool, produced, ret, hf, preHf, thr, lock,
                   prod, peer, sink, locks, cstate>>

\* the caller of a Protocol operation goes on
ReturnProtocol ==
    /\ pc = "returned"
    /\ pc' = "idle"
    /\ call' = NoCall
    /\ res' = FALSE
    /\ ret' = NoValue
    /\ preHf' = NoHardFork
    /\ UNCHANGED <<state, pre, seen, spent, disk, preDisk, todo, ioRes,
                   mempool, produced, hf, thr, lock,
                   prod, peer, sink, locks, cstate>>

NextHardFork ==
    \/ ProtocolNew
    \/ CallScheduleTransition
    \/ RunScheduleTransition
    \/ CallCheckTransition
    \/ RunCheckTransition
    \/ CallProtocolValidateTransaction
    \/ RunProtocolValidateTransaction
    \/ ReturnProtocol

SpecHardFork == Init /\ [][NextHardFork]_vars

\* check_transition has returned
TransitionChecked == pc = "returned" /\ call.op = "check_transition"

\* the pending epochs that had come when check_transition was called
DueEpochs == {k \in DOMAIN preHf.transitions : k <= call.epoch}

\* C21: tick(e) adopts every qualifying transition at once and is
\* idempotent: afterwards no scheduled entry with activation_epoch <= e
\* remains, the current era is that of the entry with the greatest
\* activation_epoch <= e (when one existed), and a second tick(e) leaves the
\* current era and the schedule unchanged.
C21_TickAdoptsAllAndIsIdempotent ==
    TransitionChecked =>
        /\ \A k \in DOMAIN hf.transitions : k > call.epoch
        /\ DueEpochs # {} =>
              LET last == CHOOSE k \in DueEpochs : \A j \in DueEpochs : j <= k
              IN  /\ hf.current_era = preHf.transitions[last].era
                  /\ hf.era_logic = preHf.transitions[last].logic
        /\ CheckTransition(hf, call.epoch) = hf

\* exactly one transition has been scheduled since the Protocol was built
SingleTransition == hf # NoHardFork /\ Len(hf.history) = 1

ProtocolValidated ==
    pc = "returned" /\ call.op = "protocol_validate_transaction"

TransitionScheduled == pc = "returned" /\ call.op = "schedule_transition"

\* the call names an epoch at or before one that was scheduled earlier,
\* whether that entry is still pending or has been activated
ScheduleConflicts ==
    \E i \in DOMAIN preHf.history : call.epoch <= preHf.history[i].epoch

\* C23: schedule never drops or replaces a scheduled transition: every entry
\* pending before the call is still pending after it, and a call whose epoch
\* is at or before an already scheduled or activated epoch is rejected as
\* ScheduleConflict and leaves the schedule and the current era unchanged.
C23_ScheduleKeepsEntries ==
    TransitionScheduled =>
        /\ \A k \in DOMAIN preHf.transitions :
              /\ k \in DOMAIN hf.transitions
              /\ hf.transitions[k] = preHf.transitions[k]
        /\ ScheduleConflicts =>
              /\ ret = Err("ScheduleConflict")
              /\ hf.transitions = preHf.transitions
              /\ hf.current_era = preHf.current_era
              /\ hf.era_logic = preHf.era_logic

\* ------------------------------------------------------------------------
\* Transaction and block validation: the era handlers, Ledger and Consensus
\* ------------------------------------------------------------------------

\* the length Consensus::validate_block asks of vrf_proof and kes_signature
ProofLen == 32

\* every implementation of EraLogic in the repository
EraLogics ==
    {"ByronEra", "ShelleyEra", "AlonzoEra", "AllegraEra", "MaryEra",
     "ConwayProtocol", "BabbageProtocol", "allegra::AllegraEra",
     "mary::MaryEra"}

\* a proof of the expected length and one that is a byte short
Proofs == {[i \in 1..n |-> 0] : n \in {ProofLen, ProofLen - 1}}

ValidateBlocks ==
    {[header |-> [slot |-> s, epoch |-> 0, leader |-> l, vrf_proof |-> v,
                  kes_signature |-> k],
      transactions |-> txs] :
        s \in {0, 1}, l \in {"", "pool1"}, v \in Proofs, k \in Proofs,
        txs \in SeqsUpTo(EraTransactions, 1)}

\* Ledger::validate_transaction: the protocol is not consulted
LedgerValidateTransaction(tx) ==
    ~ \E i \in DOMAIN tx.outputs : tx.outputs[i].amount = 0

\* Ledger::validate_block
LedgerValidateBlock(block) ==
    IF block.header.slot = 0 \/ block.header.leader = ""
    THEN FALSE
    ELSE \A i \in DOMAIN block.transactions :
            ValidateTransactionWithProtocol(block.transactions[i])

\* Consensus::validate_block
ConsensusValidateBlock(block) ==
    IF block.header.slot = 0 \/ block.header.leader = ""
    THEN FALSE
    ELSE IF \/ Len(block.header.vrf_proof) # ProofLen
            \/ Len(block.header.kes_signature) # ProofLen
         THEN FALSE
         ELSE TRUE

\* a caller hands tx to the validate_transaction of one era handler
CallEraValidateTransaction ==
    /\ pc = "idle"
    /\ \E logic \in EraLogics, tx \in EraTransactions :
          call' = [op |-> "era_validate_transaction", logic |-> logic, tx |-> tx]
    /\ pc' = "called"
    /\ UNCHANGED <<state, pre, res, seen, spent, disk, preDisk, todo, ioRes,
                   mempool, produced, ret, hf, preHf, thr, lock,
                   prod, peer, sink, locks, cstate>>

RunEraValidateTransaction ==
    /\ pc = "called"
    /\ call.op = "era_validate_transaction"
    /\ res' = EraValidateTransaction(call.logic, call.tx)
    /\ pc' = "returned"
    /\ UNCHANGED <<state, call, pre, seen, spent, disk, preDisk, todo, ioRes,
                   mempool, produced, ret, hf, preHf, thr, lock,
                   prod, peer, sink, locks, cstate>>

\* a caller invokes ledger.validate_transaction(&tx, &protocol), the
\* protocol being in the era of logic
CallValidateTransaction ==
    /\ pc = "idle"
    /\ \E logic \in EraLogics, tx \in EraTransactions :
          call' = [op |-> "validate_transaction", logic |-> logic, tx |-> tx]
    /\ pc' = "called"
    /\ UNCHANGED <<state, pre, res, seen, spent, disk, preDisk, todo, ioRes,
                   mempool, produced, ret, hf, preHf, thr, lock,
                   prod, peer, sink, locks, cstate>>

RunValidateTransaction ==
    /\ pc = "called"
    /\ call.op = "validate_transaction"
    /\ res' = LedgerValidateTransaction(call.tx)
    /\ pc' = "returned"
    /\ UNCHANGED <<state, call, pre, seen, spent, disk, preDisk, todo, ioRes,
                   mempool, produced, ret, hf, preHf, thr, lock,
                   prod, peer, sink, locks, cstate>>

\* a caller invokes ledger.validate_block(&block, &protocol)
CallLedgerValidateBlock ==
    /\ pc = "idle"
    /\ \E logic \in EraLogics, block \in ValidateBlocks :
          call' = [op |-> "ledger_validate_block", logic |-> logic,
                   block |-> block]
    /\ pc' = "called"
    /\ UNCHANGED <<state, pre, res, seen, spent, disk, preDisk, todo, ioRes,
                   mempool, produced, ret, hf, preHf, thr, lock,
                   prod, peer, sink, locks, cstate>>

RunLedgerValidateBlock ==
    /\ pc = "called"
    /\ call.op = "ledger_validate_block"
    /\ res' = LedgerValidateBlock(call.block)
    /\ pc' = "returned"
    /\ UNCHANGED <<state, call, pre, seen, spent, disk, preDisk, todo, ioRes,
                   mempool, produced, ret, hf, preHf, thr, lock,
                   prod, peer, sink, locks, cstate>>

\* a caller invokes consensus.validate_block(&block)
CallConsensusValidateBlock ==
    /\ pc = "idle"
    /\ \E block \in ValidateBlocks :
          call' = [op |-> "consensus_validate_block", block |-> block]
    /\ pc' = "called"
    /\ UNCHANGED <<state, pre, res, seen, spent, disk, preDisk, todo, ioRes,
                   mempool, produced, ret, hf, preHf, thr, lock,
                   prod, peer, sink, locks, cstate>>

RunConsensusValidateBlock ==
    /\ pc = "called"
    /\ call.op = "consensus_validate_block"
    /\ res' = ConsensusValidateBlock(call.block)
    /\ pc' = "returned"
    /\ UNCHANGED <<state, call, pre, seen, spent, disk, preDisk, todo, ioRes,
                   mempool, produced, ret, hf, preHf, thr, lock,
                   prod, peer, sink, locks, cstate>>

\* the caller of a validation goes on
ReturnValidate ==
    /\ pc = "returned"
    /\ pc' = "idle"
    /\ call' = NoCall
    /\ res' = FALSE
    /\ UNCHANGED <<state, pre, seen, spent, disk, preDisk, todo, ioRes,
                   mempool, produced, ret, hf, preHf, thr, lock,
                   prod, peer, sink, locks, cstate>>

NextValidate ==
    \/ CallEraValidateTransaction
    \/ RunEraValidateTransaction
    \/ CallValidateTransaction
    \/ RunValidateTransaction
    \/ CallLedgerValidateBlock
    \/ RunLedgerValidateBlock
    \/ CallConsensusValidateBlock
    \/ RunConsensusValidateBlock
    \/ ReturnValidate

SpecValidate == Init /\ [][NextValidate]_vars

HasInput(tx) == tx.inputs # <<>>

AllAmountsPositive(tx) == \A i \in DOMAIN tx.outputs : tx.outputs[i].amount > 0

\* C24: the Byron handler accepts tx iff tx has at least one input and at
\* least one output, and every other handler accepts tx iff tx has at least
\* one input and every output has amount > 0.
C24_HandlerRules ==
    (pc = "returned" /\ call.op = "era_validate_transaction") =>
        (res <=> IF call.logic = "ByronEra"
                 THEN HasInput(call.tx) /\ call.tx.outputs # <<>>
                 ELSE HasInput(call.tx) /\ AllAmountsPositive(call.tx))

\* C25: Ledger::validate_transaction returns true iff the rule of the active
\* era accepts tx and no output of tx has amount 0.
C25_LedgerAppliesEraRule ==
    (pc = "returned" /\ call.op = "validate_transaction") =>
        (res <=> /\ EraValidateTransaction(call.logic, call.tx)
                 /\ ~ \E i \in DOMAIN call.tx.outputs :
                         call.tx.outputs[i].amount = 0)

\* C26: Ledger::validate_block returns true iff the leader is non-empty, the
\* slot is not 0, vrf_proof and kes_signature have length 32 and every
\* transaction of the block validates under the era.
C26_LedgerBlockRule ==
    (pc = "returned" /\ call.op = "ledger_validate_block") =>
        (res <=> /\ call.block.header.leader # ""
                 /\ call.block.header.slot # 0
                 /\ Len(call.block.header.vrf_proof) = 32
                 /\ Len(call.block.header.kes_signature) = 32
                 /\ \A i \in DOMAIN call.block.transactions :
                       LET tx == call.block.transactions[i]
                       IN  /\ EraValidateTransaction(call.logic, tx)
                           /\ ~ \E j \in DOMAIN tx.outputs :
                                   tx.outputs[j].amount = 0)

\* ------------------------------------------------------------------------
\* Ledger::apply_block_to_chain
\* ------------------------------------------------------------------------

NoChain == [tag |-> "None"]

SomeChain(c) == [tag |-> "Some", value |-> c]

\* the ledger once the trial is over, had apply_block run on self
MutLedgerAfterTrial(s, trial) == trial.state

\* the ledger once the trial is over: apply_block ran on new_ledger, a
\* clone that is dropped, and self is as it was
LedgerAfterTrial(s, trial) == s

\* the value returned: Some(chain with block pushed) if the trial succeeded
ApplyBlockToChain(s, chain, block) ==
    LET trial == ApplyBlock(s, block)
    IN  [state |-> LedgerAfterTrial(s, trial),
         value |-> IF trial.ok
                   THEN SomeChain([blocks |-> Append(chain.blocks, block)])
                   ELSE NoChain]

\* the consensus task invokes ledger.apply_block_to_chain(chain, block)
CallApplyBlockToChain ==
    /\ pc = "idle"
    /\ \E c \in Chains, b \in Blocks :
          call' = [op |-> "apply_block_to_chain", chain |-> c, block |-> b]
    /\ pc' = "called"
    /\ pre' = state
    /\ UNCHANGED <<state, res, seen, spent, disk, preDisk, todo, ioRes,
                   mempool, produced, ret, hf, preHf, thr, lock,
                   prod, peer, sink, locks, cstate>>

RunApplyBlockToChain ==
    /\ pc = "called"
    /\ call.op = "apply_block_to_chain"
    /\ LET r == ApplyBlockToChain(state, call.chain, call.block)
       IN  /\ state' = r.state
           /\ ret' = r.value
    /\ pc' = "returned"
    /\ UNCHANGED <<call, pre, res, seen, spent, disk, preDisk, todo, ioRes,
                   mempool, produced, hf, preHf, thr, lock,
                   prod, peer, sink, locks, cstate>>

\* the caller of apply_block or apply_block_to_chain goes on
ReturnChain ==
    /\ pc = "returned"
    /\ pc' = "idle"
    /\ call' = NoCall
    /\ pre' = EmptyState
    /\ res' = FALSE
    /\ ret' = NoValue
    /\ UNCHANGED <<state, seen, spent, disk, preDisk, todo, ioRes, mempool,
                   produced, hf, preHf, thr, lock,
                   prod, peer, sink, locks, cstate>>

NextChain ==
    \/ CallApplyBlock
    \/ RunApplyBlock
    \/ CallApplyBlockToChain
    \/ RunApplyBlockToChain
    \/ ReturnChain

SpecChain == Init /\ [][NextChain]_vars

AppliedToChain == pc = "returned" /\ call.op = "apply_block_to_chain"

\* C27: apply_block_to_chain leaves the ledger state as it was and returns
\* the chain with the block appended iff applying the block to the state
\* the ledger had succeeds, none otherwise; the chain handed in is only read.
C27_TrialLeavesLedger ==
    AppliedToChain =>
        /\ state = pre
        /\ IF ApplyBlock(pre, call.block).ok
           THEN /\ ret.tag = "Some"
                /\ Len(ret.value.blocks) = Len(call.chain.blocks) + 1
                /\ \A i \in DOMAIN call.chain.blocks :
                      ret.value.blocks[i] = call.chain.blocks[i]
                /\ ret.value.blocks[Len(ret.value.blocks)] = call.block
           ELSE ret = NoChain

\* a block that spends an output of the ledger is tried on a chain of one
\* block and succeeds
C27_Witness ==
    /\ AppliedToChain
    /\ pre.utxos # EmptyMap
    /\ call.block.transactions = <<Spend>>
    /\ Len(call.chain.blocks) = 1
    /\ ret.tag = "Some"
    /\ state = pre

\* ------------------------------------------------------------------------
\* Mempool: threads sharing one Arc<Mutex<VecDeque<Transaction>>>
\* ------------------------------------------------------------------------

\* a second transaction with the id of Coinbase
CoinbaseTwin == [Coinbase EXCEPT !.inputs = <<<<2, 0>>>>]

MempoolTransactions == {Coinbase, CoinbaseTwin, Mint2}

MempoolTxIds == {1, 2, 4}

\* Mutex::lock on a mutex that hands itself to every caller
MutLockAvailable(l) == TRUE

\* Mutex::lock returns once no thread holds the mutex
LockAvailable(l) == l = "free"

\* the last index whose transaction has tx_id, 0 for None
MutPosition(pool, tx_id) ==
    IF \E i \in DOMAIN pool : pool[i].id = tx_id
    THEN CHOOSE i \in DOMAIN pool :
            /\ pool[i].id = tx_id
            /\ \A j \in DOMAIN pool : pool[j].id = tx_id => j <= i
    ELSE 0

\* pool.iter().position(|tx| tx.id == tx_id): the first index whose
\* transaction has tx_id, 0 for None
Position(pool, tx_id) ==
    IF \E i \in DOMAIN pool : pool[i].id = tx_id
    THEN CHOOSE i \in DOMAIN pool :
            /\ pool[i].id = tx_id
            /\ \A j \in DOMAIN pool : pool[j].id = tx_id => i <= j
    ELSE 0

\* VecDeque::remove(pos)
RemoveAt(pool, pos) ==
    [i \in 1..(Len(pool) - 1) |-> IF i < pos THEN pool[i] ELSE pool[i + 1]]

\* a thread enters add_transaction(tx)
CallAdd ==
    \E t \in Threads, tx \in MempoolTransactions :
        /\ thr[t].pc = "idle"
        /\ thr' = [thr EXCEPT ![t] =
                      [IdleThread EXCEPT !.pc = "waiting", !.op = "add", !.tx = tx]]
        /\ UNCHANGED <<state, pc, call, pre, res, seen, spent, disk, preDisk,
                       todo, ioRes, mempool, produced, ret, hf, preHf, lock,
                   prod, peer, sink, locks, cstate>>

\* a thread enters remove_transaction(tx_id)
CallRemove ==
    \E t \in Threads, id \in MempoolTxIds :
        /\ thr[t].pc = "idle"
        /\ thr' = [thr EXCEPT ![t] =
                      [IdleThread EXCEPT !.pc = "waiting", !.op = "remove",
                                         !.tx_id = id]]
        /\ UNCHANGED <<state, pc, call, pre, res, seen, spent, disk, preDisk,
                       todo, ioRes, mempool, produced, ret, hf, preHf, lock,
                   prod, peer, sink, locks, cstate>>

\* a thread enters clear()
CallClear ==
    \E t \in Threads :
        /\ thr[t].pc = "idle"
        /\ thr' = [thr EXCEPT ![t] =
                      [IdleThread EXCEPT !.pc = "waiting", !.op = "clear"]]
        /\ UNCHANGED <<state, pc, call, pre, res, seen, spent, disk, preDisk,
                       todo, ioRes, mempool, produced, ret, hf, preHf, lock,
                   prod, peer, sink, locks, cstate>>

\* a thread enters get_transactions()
CallGet ==
    \E t \in Threads :
        /\ thr[t].pc = "idle"
        /\ thr' = [thr EXCEPT ![t] =
                      [IdleThread EXCEPT !.pc = "waiting", !.op = "get"]]
        /\ UNCHANGED <<state, pc, call, pre, res, seen, spent, disk, preDisk,
                       todo, ioRes, mempool, produced, ret, hf, preHf, lock,
                   prod, peer, sink, locks, cstate>>

\* self.pool.lock().unwrap() returns the guard; before is the pool the
\* thread finds
AcquireLock ==
    \E t \in Threads :
        /\ thr[t].pc = "waiting"
        /\ LockAvailable(lock)
        /\ lock' = t
        /\ thr' = [thr EXCEPT ![t].pc = "locked", ![t].before = mempool]
        /\ UNCHANGED <<state, pc, call, pre, res, seen, spent, disk, preDisk,
                       todo, ioRes, mempool, produced, ret, hf, preHf,
                   prod, peer, sink, locks, cstate>>

\* add_transaction: if pool.len() >= self.max_size { return false; }
AddCheck ==
    \E t \in Threads :
        /\ thr[t].pc = "locked"
        /\ thr[t].op = "add"
        /\ thr' = [thr EXCEPT ![t].pc = IF Len(mempool) >= MaxMempool
                                        THEN "unlocking" ELSE "pushing",
                              ![t].ok = FALSE]
        /\ UNCHANGED <<state, pc, call, pre, res, seen, spent, disk, preDisk,
                       todo, ioRes, mempool, produced, ret, hf, preHf, lock,
                   prod, peer, sink, locks, cstate>>

\* add_transaction: pool.push_back(tx); true
AddPush ==
    \E t \in Threads :
        /\ thr[t].pc = "pushing"
        /\ mempool' = Append(mempool, thr[t].tx)
        /\ thr' = [thr EXCEPT ![t].pc = "unlocking", ![t].ok = TRUE]
        /\ UNCHANGED <<state, pc, call, pre, res, seen, spent, disk, preDisk,
                       todo, ioRes, produced, ret, hf, preHf, lock,
                   prod, peer, sink, locks, cstate>>

\* remove_transaction: pool.iter().position(..)
RemoveFind ==
    \E t \in Threads :
        /\ thr[t].pc = "locked"
        /\ thr[t].op = "remove"
        /\ LET pos == Position(mempool, thr[t].tx_id)
           IN  thr' = [thr EXCEPT ![t].pc = IF pos = 0 THEN "unlocking"
                                            ELSE "removing",
                                  ![t].pos = pos]
        /\ UNCHANGED <<state, pc, call, pre, res, seen, spent, disk, preDisk,
                       todo, ioRes, mempool, produced, ret, hf, preHf, lock,
                   prod, peer, sink, locks, cstate>>

\* remove_transaction: pool.remove(pos); an index past the end removes
\* nothing
RemoveFound ==
    \E t \in Threads :
        /\ thr[t].pc = "removing"
        /\ mempool' = IF thr[t].pos <= Len(mempool)
                      THEN RemoveAt(mempool, thr[t].pos) ELSE mempool
        /\ thr' = [thr EXCEPT ![t].pc = "unlocking"]
        /\ UNCHANGED <<state, pc, call, pre, res, seen, spent, disk, preDisk,
                       todo, ioRes, produced, ret, hf, preHf, lock,
                   prod, peer, sink, locks, cstate>>

\* clear: pool.clear()
ClearPool ==
    \E t \in Threads :
        /\ thr[t].pc = "locked"
        /\ thr[t].op = "clear"
        /\ mempool' = <<>>
        /\ thr' = [thr EXCEPT ![t].pc = "unlocking"]
        /\ UNCHANGED <<state, pc, call, pre, res, seen, spent, disk, preDisk,
                       todo, ioRes, produced, ret, hf, preHf, lock,
                   prod, peer, sink, locks, cstate>>

\* get_transactions: pool.iter().cloned().collect()
GetTransactions ==
    \E t \in Threads :
        /\ thr[t].pc = "locked"
        /\ thr[t].op = "get"
        /\ thr' = [thr EXCEPT ![t].pc = "unlocking", ![t].got = mempool]
        /\ UNCHANGED <<state, pc, call, pre, res, seen, spent, disk, preDisk,
                       todo, ioRes, mempool, produced, ret, hf, preHf, lock,
                   prod, peer, sink, locks, cstate>>

\* the guard is dropped as the method returns
ReleaseLock ==
    \E t \in Threads :
        /\ thr[t].pc = "unlocking"
        /\ lock' = "free"
        /\ thr' = [thr EXCEPT ![t] = IdleThread]
        /\ UNCHANGED <<state, pc, call, pre, res, seen, spent, disk, preDisk,
                       todo, ioRes, mempool, produced, ret, hf, preHf,
                   prod, peer, sink, locks, cstate>>

NextMempool ==
    \/ CallAdd
    \/ CallRemove
    \/ CallClear
    \/ CallGet
    \/ AcquireLock
    \/ AddCheck
    \/ AddPush
    \/ RemoveFind
    \/ RemoveFound
    \/ ClearPool
    \/ GetTransactions
    \/ ReleaseLock

SpecMempool == Init /\ [][NextMempool]_vars

\* the thread is between lock() and the drop of the guard
InMethod(t) == thr[t].pc \in {"locked", "pushing", "removing", "unlocking"}

\* the thread has done the body of op and is about to return
Finished(t, op) == thr[t].pc = "unlocking" /\ thr[t].op = op

\* C28: under every interleaving of the threads each call works on the pool
\* alone from lock to return, the pool never holds more than MaxMempool
\* transactions, and add returns false exactly when the pool it found held
\* MaxMempool transactions; otherwise the pool is the one it found with tx
\* at the tail, whether or not tx was in it already.
C28_AtomicAndBounded ==
    /\ Len(mempool) <= MaxMempool
    /\ \A t \in Threads :
          /\ InMethod(t) =>
                /\ lock = t
                /\ \A u \in Threads \ {t} : ~ InMethod(u)
          /\ thr[t].pc \in {"locked", "pushing", "removing"} =>
                mempool = thr[t].before
          /\ Finished(t, "add") =>
                /\ thr[t].ok = FALSE <=> Len(thr[t].before) = MaxMempool
                /\ mempool = IF thr[t].ok
                             THEN Append(thr[t].before, thr[t].tx)
                             ELSE thr[t].before

\* add is refused on a full pool of two equal transactions while the other
\* thread waits for the lock
C28_Witness ==
    \E t \in Threads, u \in Threads :
        /\ t # u
        /\ Finished(t, "add")
        /\ thr[t].ok = FALSE
        /\ Len(thr[t].before) = MaxMempool
        /\ thr[t].before[1] = thr[t].before[2]
        /\ thr[u].pc = "waiting"

\* pool without its oldest entry of that id
WithoutOldest(pool, tx_id) ==
    IF \A i \in DOMAIN pool : pool[i].id # tx_id
    THEN pool
    ELSE LET first == CHOOSE i \in DOMAIN pool :
                         /\ pool[i].id = tx_id
                         /\ \A j \in 1..(i - 1) : pool[j].id # tx_id
         IN  SubSeq(pool, 1, first - 1) \o SubSeq(pool, first + 1, Len(pool))

MaxReward == 3

\* calls are made while the rewards handed out so far stay within this sum
MaxRewardSum == 6

\* the largest stake of one address
MaxStake == 2

RECURSIVE SumOver(_, _)
\* the sum of the values of m at the keys ks
SumOver(m, ks) ==
    IF ks = {} THEN 0
    ELSE LET k == CHOOSE x \in ks : TRUE
         IN  m[k] + SumOver(m, ks \ {k})

\* map.values().sum()
SumValues(m) == SumOver(m, DOMAIN m)

\* a share that is rounded up instead of down
MutRewardShare(stake, total_rewards, total_stake) ==
    (stake * total_rewards + total_stake - 1) \div total_stake

\* the share of one address: stake * total_rewards / total_stake in u128,
\* cast to u64
RewardShare(stake, total_rewards, total_stake) ==
    (stake * total_rewards) \div total_stake

\* LedgerState::distribute_rewards
DistributeRewards(s, total_rewards) ==
    LET total_stake == SumValues(s.stake_distribution)
    IN  IF total_stake = 0 \/ total_rewards = 0
        THEN s
        ELSE [s EXCEPT !.rewards =
                 [a \in (DOMAIN s.rewards) \cup (DOMAIN s.stake_distribution) |->
                     (IF a \in DOMAIN s.rewards THEN s.rewards[a] ELSE 0)
                     + (IF a \in DOMAIN s.stake_distribution
                        THEN RewardShare(s.stake_distribution[a],
                                         total_rewards, total_stake)
                        ELSE 0)]]

\* the owner of the state writes state.stake_distribution.insert(addr, stake)
InsertStake ==
    /\ pc = "idle"
    /\ \E a \in Addresses, stake \in 1..MaxStake :
          state' = [state EXCEPT !.stake_distribution =
                       MapInsert(state.stake_distribution, a, stake)]
    /\ UNCHANGED <<pc, call, pre, res, seen, spent, disk, preDisk, todo,
                   ioRes, mempool, produced, ret, hf, preHf, thr, lock,
                   prod, peer, sink, locks, cstate>>

\* a caller invokes state.distribute_rewards(total_rewards)
CallDistributeRewards ==
    /\ pc = "idle"
    /\ \E total_rewards \in 0..MaxReward :
          /\ SumValues(state.rewards) + total_rewards <= MaxRewardSum
          /\ call' = [op |-> "distribute_rewards",
                      total_rewards |-> total_rewards]
    /\ pc' = "called"
    /\ pre' = state
    /\ UNCHANGED <<state, res, seen, spent, disk, preDisk, todo, ioRes,
                   mempool, produced, ret, hf, preHf, thr, lock,
                   prod, peer, sink, locks, cstate>>

\* the body of distribute_rewards; it returns ()
RunDistributeRewards ==
    /\ pc = "called"
    /\ call.op = "distribute_rewards"
    /\ state' = DistributeRewards(state, call.total_rewards)
    /\ ret' = Unit
    /\ pc' = "returned"
    /\ UNCHANGED <<call, pre, res, seen, spent, disk, preDisk, todo, ioRes,
                   mempool, produced, hf, preHf, thr, lock,
                   prod, peer, sink, locks, cstate>>

NextRewards ==
    \/ InsertStake
    \/ CallDistributeRewards
    \/ RunDistributeRewards
    \/ ReturnValue

SpecRewards == Init /\ [][NextRewards]_vars

\* C30: with no withdrawals the sum of rewards equals the sum of the
\* total_rewards handed to distribute_rewards: each call raises the sum of
\* rewards by exactly its total_rewards.
C30_RewardsSumToTotal ==
    (pc = "returned" /\ call.op = "distribute_rewards") =>
        SumValues(state.rewards) = SumValues(pre.rewards) + call.total_rewards

RewardsDistributed == pc = "returned" /\ call.op = "distribute_rewards"

\* what addr held in rewards before the call, 0 if it had no entry
RewardBefore(addr) == IF addr \in DOMAIN pre.rewards THEN pre.rewards[addr] ELSE 0

\* C31: with a positive stake sum S and total > 0, distribute_rewards(total)
\* adds exactly floor(stake * total / S) to rewards[addr] for every
\* (addr, stake) of stake_distribution and changes nothing else; with S = 0
\* or total = 0 the LedgerState is unchanged.
C31_ProportionalFloorShares ==
    RewardsDistributed =>
        LET S == SumValues(pre.stake_distribution)
            total == call.total_rewards
        IN  IF S > 0 /\ total > 0
            THEN /\ DOMAIN state.rewards =
                       (DOMAIN pre.rewards) \cup (DOMAIN pre.stake_distribution)
                 /\ \A addr \in DOMAIN pre.stake_distribution :
                       LET added == state.rewards[addr] - RewardBefore(addr)
                           stake == pre.stake_distribution[addr]
                       IN  /\ added >= 0
                           /\ added * S <= stake * total
                           /\ stake * total < (added + 1) * S
                 /\ \A addr \in (DOMAIN pre.rewards) \ (DOMAIN pre.stake_distribution) :
                       state.rewards[addr] = pre.rewards[addr]
                 /\ [state EXCEPT !.rewards = pre.rewards] = pre
            ELSE state = pre

\* stakes 1 and 2 share 2 on top of rewards already held: the shares are
\* floor(2/3) = 0 and floor(4/3) = 1
C31_Witness ==
    /\ RewardsDistributed
    /\ DOMAIN pre.stake_distribution = {"A", "B"}
    /\ pre.stake_distribution["A"] = 1
    /\ pre.stake_distribution["B"] = 2
    /\ call.total_rewards = 2
    /\ "B" \in DOMAIN pre.rewards
    /\ pre.rewards["B"] > 0
    /\ state.rewards["A"] = RewardBefore("A")
    /\ state.rewards["B"] = pre.rewards["B"] + 1

\* ------------------------------------------------------------------------
\* Consensus::run_slot_leadership and Network::handle_peer_connection as two
\* tasks sharing ledger, protocol and mempool behind tokio Mutexes
\* ------------------------------------------------------------------------

\* the slot loop is followed for MaxSlots slots
MaxSlots == 3

\* the arguments slots_per_epoch, total_nodes and node_id of the loop
SlotsPerEpoch == 2
TotalNodes == 2
NodeId == 0

\* a transaction with an output of amount 0
ZeroOut == [id |-> 5, inputs |-> <<>>,
            outputs |-> <<[address |-> "A", amount |-> 0]>>]

\* the transactions peers send
SlotTransactions == {Spend, ZeroOut}

\* a block a peer sends
PeerBlock ==
    [header |-> [slot |-> 1, epoch |-> 0, leader |-> "pool1",
                 vrf_proof |-> [i \in 1..ProofLen |-> 0],
                 kes_signature |-> [i \in 1..ProofLen |-> 0]],
     transactions |-> <<>>]

PeerMessages ==
    [kind : {"Transaction"}, tx : SlotTransactions]
        \cup [kind : {"Block"}, block : {PeerBlock}]

\* a ledger with one unspent output and pool p1 retiring at epoch 1
RetiringState ==
    LET reg == [kind |-> "PoolRegistration",
                reg |-> [pool_id |-> "p1", owner |-> "o"]]
        retire == [kind |-> "PoolRetirement", pool_id |-> "p1",
                   retirement_epoch |-> 1]
    IN  ApplyCertificate(ApplyCertificate(UtxoState, reg, 0).state,
                         retire, 0).state

\* the ledgers the node starts from
NodeStates == {EmptyState, RetiringState}

\* the protocol the node starts with: Byron, with no upgrade scheduled or
\* with Shelley scheduled at some epoch
NodeProtocols ==
    LET byron == HardForkNew([variant |-> "single", era |-> "Byron",
                              logic |-> "none"])
        shelley == [variant |-> "single", era |-> "Shelley", logic |-> "none"]
    IN  {byron} \cup {ScheduleTransition(byron, shelley, e) : e \in Epochs}

\* a leader that is elected in every slot
MutIsLeader(slot) == TRUE

\* the round-robin leader election of run_slot_leadership
IsLeader(slot) == (slot % TotalNodes) = NodeId

\* a peer task that locks the mempool before the ledger
MutPeerLockOrder == <<"mempool", "ledger">>

\* the locks run_slot_leadership takes in a slot it leads, in order
ProducerLockOrder == <<"ledger", "protocol", "mempool">>

\* the locks handle_peer_connection takes for a message, in order
PeerLockOrder == <<"ledger", "mempool">>

\* every lock held by task who is free again
Released(l, who) == [x \in DOMAIN l |-> IF l[x] = who THEN "free" ELSE l[x]]

\* the slot is over: the guards are dropped, slot += 1, and the task sleeps
SlotDone(p) == [p EXCEPT !.pc = "idle", !.slot = p.slot + 1, !.held = 0]

\* main builds ledger and protocol and spawns the tasks
NodeStart ==
    /\ prod.pc = "new"
    /\ pc = "idle"
    /\ hf = NoHardFork
    /\ \E s \in NodeStates : state' = s
    /\ \E h \in NodeProtocols : hf' = h
    /\ prod' = [prod EXCEPT !.pc = "idle"]
    /\ UNCHANGED <<pc, call, pre, res, seen, spent, disk, preDisk, todo, ioRes,
                   mempool, produced, ret, preHf, thr, lock, peer, sink, locks, cstate>>

\* the top of the loop: at an epoch boundary current_epoch += 1 and the
\* protocol is to be ticked
SlotStart ==
    /\ prod.pc = "idle"
    /\ prod.slot < MaxSlots
    /\ prod' = IF prod.slot % SlotsPerEpoch = 0 /\ prod.slot > 0
               THEN [prod EXCEPT !.pc = "tick_lock",
                                 !.current_epoch = prod.current_epoch + 1,
                                 !.block = [tag |-> "None"],
                                 !.validated = FALSE, !.applied = FALSE,
                                 !.sent = FALSE]
               ELSE [prod EXCEPT !.pc = "leader_check",
                                 !.block = [tag |-> "None"],
                                 !.validated = FALSE, !.applied = FALSE,
                                 !.sent = FALSE]
    /\ UNCHANGED <<state, pc, call, pre, res, seen, spent, disk, preDisk, todo,
                   ioRes, mempool, produced, ret, hf, preHf, thr, lock, peer,
                   sink, locks, cstate>>

\* protocol.lock().await at the epoch boundary
TickLock ==
    /\ prod.pc = "tick_lock"
    /\ locks.protocol = "free"
    /\ locks' = [locks EXCEPT !.protocol = "producer"]
    /\ prod' = [prod EXCEPT !.pc = "tick"]
    /\ UNCHANGED <<state, pc, call, pre, res, seen, spent, disk, preDisk, todo,
                   ioRes, mempool, produced, ret, hf, preHf, thr, lock, peer,
                   sink, cstate>>

\* protocol_guard.handle_upgrade(current_epoch); the guard is dropped at
\* the end of the if block
HandleUpgrade ==
    /\ prod.pc = "tick"
    /\ hf' = [CheckTransition(hf, prod.current_epoch) EXCEPT
                 !.clock = prod.current_epoch]
    /\ locks' = Released(locks, "producer")
    /\ prod' = [prod EXCEPT !.pc = "leader_check"]
    /\ UNCHANGED <<state, pc, call, pre, res, seen, spent, disk, preDisk, todo,
                   ioRes, mempool, produced, ret, preHf, thr, lock, peer, sink, cstate>>

\* let is_leader = (slot % total_nodes) == node_id
LeaderCheck ==
    /\ prod.pc = "leader_check"
    /\ prod' = IF IsLeader(prod.slot)
               THEN [prod EXCEPT !.pc = "locking", !.held = 0]
               ELSE SlotDone(prod)
    /\ UNCHANGED <<state, pc, call, pre, res, seen, spent, disk, preDisk, todo,
                   ioRes, mempool, produced, ret, hf, preHf, thr, lock, peer,
                   sink, locks, cstate>>

\* ledger.lock().await, protocol.lock().await, mempool.lock().await
ProducerAcquire ==
    /\ prod.pc = "locking"
    /\ LET l == ProducerLockOrder[prod.held + 1]
       IN  /\ locks[l] = "free"
           /\ locks' = [locks EXCEPT ![l] = "producer"]
    /\ prod' = [prod EXCEPT !.held = prod.held + 1,
                            !.pc = IF prod.held + 1 = Len(ProducerLockOrder)
                                   THEN "build" ELSE "locking"]
    /\ UNCHANGED <<state, pc, call, pre, res, seen, spent, disk, preDisk, todo,
                   ioRes, mempool, produced, ret, hf, preHf, thr, lock, peer,
                   sink, cstate>>

\* Block::new_from_mempool(..)
BuildBlock ==
    /\ prod.pc = "build"
    /\ LET b == NewFromMempool(state, mempool)
       IN  prod' = [prod EXCEPT !.block = b,
                                !.pc = IF b.tag = "None" THEN "release"
                                       ELSE "validate"]
    /\ UNCHANGED <<state, pc, call, pre, res, seen, spent, disk, preDisk, todo,
                   ioRes, mempool, produced, ret, hf, preHf, thr, lock, peer,
                   sink, locks, cstate>>

\* if protocol_guard.validate_block(&block).await
ValidateBuiltBlock ==
    /\ prod.pc = "validate"
    /\ LET v == EraValidateBlock(prod.block.block)
       IN  prod' = [prod EXCEPT !.validated = v,
                                !.pc = IF v THEN "apply" ELSE "release"]
    /\ UNCHANGED <<state, pc, call, pre, res, seen, spent, disk, preDisk, todo,
                   ioRes, mempool, produced, ret, hf, preHf, thr, lock, peer,
                   sink, locks, cstate>>

\* ledger_guard.apply_block(&block); the bool it returns is dropped
ApplyBuiltBlock ==
    /\ prod.pc = "apply"
    /\ LET r == ApplyBlock(state, prod.block.block)
       IN  /\ state' = r.state
           /\ prod' = [prod EXCEPT !.applied = r.ok, !.pc = "broadcast"]
    /\ UNCHANGED <<pc, call, pre, res, seen, spent, disk, preDisk, todo, ioRes,
                   mempool, produced, ret, hf, preHf, thr, lock, peer, sink,
                   locks, cstate>>

\* network.broadcast_block(&block).await
BroadcastBlock ==
    /\ prod.pc = "broadcast"
    /\ sink' = Append(sink, prod.block.block.id)
    /\ prod' = [prod EXCEPT !.sent = TRUE, !.pc = "release"]
    /\ UNCHANGED <<state, pc, call, pre, res, seen, spent, disk, preDisk, todo,
                   ioRes, mempool, produced, ret, hf, preHf, thr, lock, peer,
                   locks, cstate>>

\* the end of the if is_leader block drops the three guards; slot += 1 and
\* the task sleeps until the next slot
FinishSlot ==
    /\ prod.pc = "release"
    /\ locks' = Released(locks, "producer")
    /\ prod' = SlotDone(prod)
    /\ UNCHANGED <<state, pc, call, pre, res, seen, spent, disk, preDisk, todo,
                   ioRes, mempool, produced, ret, hf, preHf, thr, lock, peer,
                   sink, cstate>>

\* reader.read() returns a message that deserializes
PeerRead ==
    /\ peer.pc = "read"
    /\ prod.pc # "new"
    /\ \E m \in PeerMessages :
          peer' = [pc |-> "locking", held |-> 0, msg |-> m]
    /\ UNCHANGED <<state, pc, call, pre, res, seen, spent, disk, preDisk, todo,
                   ioRes, mempool, produced, ret, hf, preHf, thr, lock, prod,
                   sink, locks, cstate>>

\* ledger.lock().await, then mempool.lock().await
PeerAcquire ==
    /\ peer.pc = "locking"
    /\ LET l == PeerLockOrder[peer.held + 1]
       IN  /\ locks[l] = "free"
           /\ locks' = [locks EXCEPT ![l] = "peer"]
    /\ peer' = [peer EXCEPT !.held = peer.held + 1,
                            !.pc = IF peer.held + 1 = Len(PeerLockOrder)
                                   THEN "handle" ELSE "locking"]
    /\ UNCHANGED <<state, pc, call, pre, res, seen, spent, disk, preDisk, todo,
                   ioRes, mempool, produced, ret, hf, preHf, thr, lock, prod,
                   sink, cstate>>

\* Network::handle_peer_message_static: a block is validated and its
\* verdict dropped, a transaction is added to the mempool; the guards are
\* dropped before the next read
HandlePeerMessage ==
    /\ peer.pc = "handle"
    /\ mempool' = IF peer.msg.kind = "Transaction"
                  THEN AddTransaction(mempool, peer.msg.tx)
                  ELSE mempool
    /\ locks' = Released(locks, "peer")
    /\ peer' = NewPeer
    /\ UNCHANGED <<state, pc, call, pre, res, seen, spent, disk, preDisk, todo,
                   ioRes, produced, ret, hf, preHf, thr, lock, prod, sink, cstate>>

NextSlot ==
    \/ NodeStart
    \/ SlotStart
    \/ TickLock
    \/ HandleUpgrade
    \/ LeaderCheck
    \/ ProducerAcquire
    \/ BuildBlock
    \/ ValidateBuiltBlock
    \/ ApplyBuiltBlock
    \/ BroadcastBlock
    \/ FinishSlot
    \/ PeerRead
    \/ PeerAcquire
    \/ HandlePeerMessage

SpecSlot == Init /\ [][NextSlot]_vars

\* the block of this slot has been handed to the broadcast sink and the
\* producer still holds its locks
BlockSent == prod.pc = "release" /\ prod.sent

\* C32: a block is handed to the broadcast sink only after the era has
\* validated it, apply_block has succeeded on it and it has been persisted;
\* a block whose application fails is never broadcast.
C32_BroadcastAfterApplyAndPersist ==
    BlockSent =>
        /\ prod.validated
        /\ prod.applied
        /\ <<"block", prod.block.block.id>> \in DOMAIN disk

\* C33: every block the producer assembles is non-empty and holds only
\* transactions that pass Ledger::validate_transaction.
C33_BlockHoldsValidTransactions ==
    prod.block.tag = "Some" =>
        /\ prod.block.block.transactions # <<>>
        /\ \A i \in DOMAIN prod.block.block.transactions :
              LedgerValidateTransaction(prod.block.block.transactions[i])

\* C34: the producer drains the mempool: once a block is built and sent,
\* none of its transactions is in the mempool any more, so that no
\* transaction is included in the block of a later slot again.
C34_MempoolDrained ==
    BlockSent =>
        \A i \in DOMAIN prod.block.block.transactions :
            prod.block.block.transactions[i] \notin Range(mempool)

\* the slot began at an epoch boundary
AtEpochBoundary == prod.slot % SlotsPerEpoch = 0 /\ prod.slot > 0

\* C35: in every slot, before the leader check, the protocol has been
\* ticked with the current epoch, so that no scheduled transition is due
\* any more when the block is validated, and at every epoch boundary
\* process_pool_retirements(current_epoch) has been called, so that no pool
\* retirement is due any more.
C35_TickedBeforeLeaderCheck ==
    /\ prod.pc \in {"leader_check", "locking", "build", "validate"} =>
          CheckTransition(hf, prod.current_epoch) = hf
    /\ (prod.pc = "leader_check" /\ AtEpochBoundary) =>
          ProcessPoolRetirements(state, prod.current_epoch) = state

\* the tokio runtime runs every task that can go on, and tokio's Mutex
\* hands the lock to its waiters in the order they asked: a task that
\* waits for a lock gets it once the holders before it are done
SlotFairness ==
    /\ WF_vars(NodeStart)
    /\ WF_vars(SlotStart)
    /\ SF_vars(TickLock)
    /\ WF_vars(HandleUpgrade)
    /\ WF_vars(LeaderCheck)
    /\ SF_vars(ProducerAcquire)
    /\ WF_vars(BuildBlock)
    /\ WF_vars(ValidateBuiltBlock)
    /\ WF_vars(ApplyBuiltBlock)
    /\ WF_vars(BroadcastBlock)
    /\ WF_vars(FinishSlot)
    /\ SF_vars(PeerAcquire)
    /\ WF_vars(HandlePeerMessage)

SpecSlotFair == Init /\ [][NextSlot]_vars /\ SlotFairness

\* the state of the producer's state machine the loop is in
ProducerState ==
    CASE prod.pc \in {"new", "idle", "release"} -> "Idle"
      [] prod.pc \in {"tick_lock", "tick", "leader_check"} -> "EpochRolling"
      [] prod.pc \in {"locking", "build", "validate"} -> "Leading"
      [] prod.pc \in {"apply", "broadcast"} -> "Persisting"

ProducerTransitions ==
    {<<"Idle", "EpochRolling">>, <<"EpochRolling", "Leading">>,
     <<"Leading", "Persisting">>, <<"EpochRolling", "Idle">>,
     <<"Leading", "Idle">>, <<"Persisting", "Idle">>}

\* C36: the producer follows Idle -> EpochRolling -> Leading -> Persisting:
\* it is Leading only in a slot whose leader check is true and Persisting
\* only with a block that was assembled and validated, it changes state
\* only along the transitions of the machine, and from every state it
\* returns to Idle, so that every slot is completed and the next one
\* processed, whatever step failed.
C36_ProducerStateMachine ==
    /\ [](ProducerState = "Leading" => (prod.slot % TotalNodes) = NodeId)
    /\ [](ProducerState = "Persisting" =>
              prod.block.tag = "Some" /\ prod.validated)
    /\ [][ProducerState' # ProducerState =>
              <<ProducerState, ProducerState'>> \in ProducerTransitions]_vars
    /\ (ProducerState # "Idle") ~> (ProducerState = "Idle")
    /\ \A n \in 0..(MaxSlots - 1) : (prod.slot = n) ~> (prod.slot = n + 1)

\* the producer broadcasts a block whose application failed while the peer
\* task waits for the ledger lock
C36_Witness ==
    /\ prod.pc = "broadcast"
    /\ ~prod.applied
    /\ peer.pc = "locking"
    /\ locks.ledger = "producer"

\* the place of each lock in the order ledger, protocol, mempool
LockRank == [ledger |-> 1, protocol |-> 2, mempool |-> 3]

\* the lock the task is waiting for in lock().await, "none" if it is not
\* waiting for one
Requested(who) ==
    IF who = "producer"
    THEN CASE prod.pc = "tick_lock" -> "protocol"
           [] prod.pc = "locking" -> ProducerLockOrder[prod.held + 1]
           [] OTHER -> "none"
    ELSE IF peer.pc = "locking" THEN PeerLockOrder[peer.held + 1] ELSE "none"

\* the task waits for a lock another task holds
Blocked(who) ==
    /\ Requested(who) # "none"
    /\ locks[Requested(who)] \notin {"free", who}

\* C39: no interleaving of the slot loop and the peer handler deadlocks:
\* a task that asks for a lock holds only locks that come before it in the
\* order ledger, protocol, mempool, the two tasks are never both waiting
\* for a lock the other holds, and a task holds no lock while it sleeps
\* until the next slot or reads the next peer message.
C39_LockOrderNoDeadlock ==
    /\ \A who \in {"producer", "peer"} :
          Requested(who) # "none" =>
              \A l \in DOMAIN locks :
                  locks[l] = who => LockRank[l] < LockRank[Requested(who)]
    /\ ~(Blocked("producer") /\ Blocked("peer"))
    /\ prod.pc \in {"new", "idle"} =>
          \A l \in DOMAIN locks : locks[l] # "producer"
    /\ peer.pc = "read" => \A l \in DOMAIN locks : locks[l] # "peer"

\* the producer, holding ledger and protocol, waits for nothing the peer
\* holds while the peer waits for the ledger
C39_Witness ==
    /\ prod.pc = "locking"
    /\ prod.held = 2
    /\ locks.ledger = "producer"
    /\ locks.protocol = "producer"
    /\ Blocked("peer")
    /\ Requested("peer") = "ledger"

\* ------------------------------------------------------------------------
\* ConsensusState::new and ConsensusState::advance_slot
\* ------------------------------------------------------------------------

\* advance_slot is followed for MaxAdvance calls
MaxAdvance == 12

\* slots_per_epoch and kes_rotation_interval are drawn from 1..MaxInterval
MaxInterval == 3

\* a counter that rolls over one slot late
MutRollsOver(slot, interval) == (slot % interval) = 1 % interval

\* the test of advance_slot for a new epoch and for a new KES period
RollsOver(slot, interval) == (slot % interval) = 0

\* ConsensusState::advance_slot
AdvanceSlot(c) ==
    LET slot == c.slot + 1
    IN  [c EXCEPT !.slot = slot,
                  !.epoch = IF RollsOver(slot, c.slots_per_epoch)
                            THEN c.epoch + 1 ELSE c.epoch,
                  !.kes_period = IF RollsOver(slot, c.kes_rotation_interval)
                                 THEN c.kes_period + 1 ELSE c.kes_period]

\* ConsensusState::new(slots_per_epoch, .., kes_rotation_interval)
ConsensusStateNew ==
    /\ ~cstate.built
    /\ \E spe \in 1..MaxInterval, kri \in 1..MaxInterval :
          cstate' = [built |-> TRUE, slot |-> 0, epoch |-> 0,
                 slots_per_epoch |-> spe, kes_period |-> 0,
                 kes_rotation_interval |-> kri, advanced |-> 0]
    /\ UNCHANGED <<state, pc, call, pre, res, seen, spent, disk, preDisk, todo,
                   ioRes, mempool, produced, ret, hf, preHf, thr, lock, prod,
                   peer, sink, locks>>

\* state.advance_slot()
RunAdvanceSlot ==
    /\ cstate.built
    /\ cstate.advanced < MaxAdvance
    /\ cstate' = [AdvanceSlot(cstate) EXCEPT !.advanced = cstate.advanced + 1]
    /\ UNCHANGED <<state, pc, call, pre, res, seen, spent, disk, preDisk, todo,
                   ioRes, mempool, produced, ret, hf, preHf, thr, lock, prod,
                   peer, sink, locks>>

NextConsensusState ==
    \/ ConsensusStateNew
    \/ RunAdvanceSlot

SpecConsensusState == Init /\ [][NextConsensusState]_vars

\* q is floor(n / d)
IsFloorDiv(q, n, d) == q * d <= n /\ n < (q + 1) * d

\* C37: after n calls of advance_slot from the initial state, slot = n,
\* epoch = floor(n / slots_per_epoch) and
\* kes_period = floor(n / kes_rotation_interval).
C37_EpochAndKesInStep ==
    cstate.built =>
        /\ cstate.slot = cstate.advanced
        /\ IsFloorDiv(cstate.epoch, cstate.advanced, cstate.slots_per_epoch)
        /\ IsFloorDiv(cstate.kes_period, cstate.advanced, cstate.kes_rotation_interval)

\* seven slots into epochs of 3 slots and KES periods of 2
C37_Witness ==
    /\ cstate.built
    /\ cstate.slots_per_epoch = 3
    /\ cstate.kes_rotation_interval = 2
    /\ cstate.advanced = 7
    /\ cstate.epoch = 2
    /\ cstate.kes_period = 3

\* ------------------------------------------------------------------------
\* Block propagation between two ledgers
\* (tests/integration_block_propagation.rs)
\* ------------------------------------------------------------------------

\* two ledgers in the same state: ledger1 is the copy kept in pre, ledger2
\* is state; the block is about to be built on ledger1 and sent to ledger2
CallPropagate ==
    /\ pc = "idle"
    /\ call' = [op |-> "propagate"]
    /\ pc' = "called"
    /\ pre' = state
    /\ UNCHANGED <<state, res, seen, spent, disk, preDisk, todo, ioRes,
                   mempool, produced, ret, hf, preHf, thr, lock, prod, peer,
                   sink, locks, cstate>>

\* Block::new_from_mempool(&mempool, &ledger1), which only reads ledger1,
\* then ledger2.apply_block(&block)
RunPropagate ==
    /\ pc = "called"
    /\ call.op = "propagate"
    /\ LET b == NewFromMempool(pre, mempool)
       IN  /\ ret' = b
           /\ IF b.tag = "None"
              THEN /\ res' = FALSE
                   /\ state' = state
              ELSE LET r == ApplyBlock(state, b.block)
                   IN  /\ res' = r.ok
                       /\ state' = r.state
    /\ pc' = "returned"
    /\ UNCHANGED <<call, pre, seen, spent, disk, preDisk, todo, ioRes, mempool,
                   produced, hf, preHf, thr, lock, prod, peer, sink, locks,
                   cstate>>

NextPropagate ==
    \/ ReceiveTransaction
    \/ CallApplyBlock
    \/ RunApplyBlock
    \/ CallPropagate
    \/ RunPropagate
    \/ ReturnChain

SpecPropagate == Init /\ [][NextPropagate]_vars

\* a block was built on ledger1 and applied on ledger2
Propagated ==
    /\ pc = "returned"
    /\ call.op = "propagate"
    /\ ret.tag = "Some"
    /\ res

\* C38: for two ledgers in the same state, after a block is built from the
\* mempool on ledger1 and applied on ledger2, ledger1.tip_hash() equals
\* ledger2.tip_hash().
C38_PropagationKeepsTipsEqual ==
    Propagated => TipHash(pre) = TipHash(state)

\* ------------------------------------------------------------------------
\* What apply_transaction and apply_block leave alone
\* ------------------------------------------------------------------------

\* Transaction { id, inputs, outputs, certificates, plutus_witnesses }
\* with certificates: a coinbase that registers pool p2, and a spend of
\* (1, 0) that delegates d1 to p1 and retires p1 at epoch MaxEpoch
CertCoinbase ==
    [id |-> 1, inputs |-> <<>>,
     outputs |-> <<[address |-> "A", amount |-> 100]>>,
     certificates |->
         <<[kind |-> "PoolRegistration",
            reg |-> [pool_id |-> "p2", owner |-> "o"]]>>]
CertSpend ==
    [id |-> 2, inputs |-> <<<<1, 0>>>>,
     outputs |-> <<[address |-> "B", amount |-> 100]>>,
     certificates |->
         <<[kind |-> "Delegation", delegator |-> "d1", pool_id |-> "p1"],
           [kind |-> "PoolRetirement", pool_id |-> "p1",
            retirement_epoch |-> MaxEpoch]>>]

CertTransactions == {CertCoinbase, CertSpend}

\* a caller invokes ledger.apply_transaction(&tx) with such a transaction
CallApplyCertTransaction ==
    /\ pc = "idle"
    /\ \E tx \in CertTransactions :
          call' = [op |-> "apply_transaction", tx |-> tx]
    /\ pc' = "called"
    /\ pre' = state
    /\ UNCHANGED <<state, res, seen, spent, disk, preDisk, todo, ioRes,
                   mempool, produced, ret, hf, preHf, thr, lock, prod, peer,
                   sink, locks, cstate>>

\* a caller invokes ledger.apply_block(&block) with a block of them
CallApplyCertBlock ==
    /\ pc = "idle"
    /\ \E txs \in SeqsUpTo(CertTransactions, MaxBlockTxs) :
          call' = [op |-> "apply_block",
                   block |-> [id |-> 1, transactions |-> txs]]
    /\ pc' = "called"
    /\ pre' = state
    /\ UNCHANGED <<state, res, seen, spent, disk, preDisk, todo, ioRes,
                   mempool, produced, ret, hf, preHf, thr, lock, prod, peer,
                   sink, locks, cstate>>

\* the certificates that register pool p1, delegate to it and retire it
PoolCertificates ==
    {[kind |-> "PoolRegistration", reg |-> [pool_id |-> "p1", owner |-> "o"]],
     [kind |-> "Delegation", delegator |-> "d1", pool_id |-> "p1"],
     [kind |-> "PoolRetirement", pool_id |-> "p1",
      retirement_epoch |-> MaxEpoch]}

\* a caller invokes state.apply_certificate(&cert, 0) with one of them
CallPoolCertificate ==
    /\ pc = "idle"
    /\ \E cert \in PoolCertificates :
          call' = [op |-> "apply_certificate", cert |-> cert,
                   current_epoch |-> 0]
    /\ pc' = "called"
    /\ pre' = state
    /\ UNCHANGED <<state, res, seen, spent, disk, preDisk, todo, ioRes,
                   mempool, produced, ret, hf, preHf, thr, lock, prod, peer,
                   sink, locks, cstate>>

\* the owner of the state writes state.stake_distribution.insert("A", 1)
InsertStakeOfA ==
    /\ pc = "idle"
    /\ state' = [state EXCEPT !.stake_distribution =
                    MapInsert(state.stake_distribution, "A", 1)]
    /\ UNCHANGED <<pc, call, pre, res, seen, spent, disk, preDisk, todo,
                   ioRes, mempool, produced, ret, hf, preHf, thr, lock,
                   prod, peer, sink, locks, cstate>>

\* a caller invokes state.distribute_rewards(1)
CallDistributeOne ==
    /\ pc = "idle"
    /\ SumValues(state.rewards) + 1 <= MaxRewardSum
    /\ call' = [op |-> "distribute_rewards", total_rewards |-> 1]
    /\ pc' = "called"
    /\ pre' = state
    /\ UNCHANGED <<state, res, seen, spent, disk, preDisk, todo, ioRes,
                   mempool, produced, ret, hf, preHf, thr, lock, prod, peer,
                   sink, locks, cstate>>

NextFrame ==
    \/ CallPoolCertificate
    \/ RunApplyCertificate
    \/ InsertStakeOfA
    \/ CallDistributeOne
    \/ RunDistributeRewards
    \/ CallApplyCertTransaction
    \/ RunApplyTransaction
    \/ CallApplyCertBlock
    \/ RunApplyBlock
    \/ ReturnChain

SpecFrame == Init /\ [][NextFrame]_vars

\* apply_transaction or apply_block has just returned
LedgerApplied ==
    /\ pc = "returned"
    /\ call.op \in {"apply_transaction", "apply_block"}

\* C40: apply_transaction and apply_block modify only utxos: stake_pools,
\* delegations, pool_retirements, stake_distribution and rewards are as
\* they were before the call, also when the transactions carry
\* certificates.
C40_OnlyUtxosModified ==
    LedgerApplied =>
        /\ state.stake_pools = pre.stake_pools
        /\ state.delegations = pre.delegations
        /\ state.pool_retirements = pre.pool_retirements
        /\ state.stake_distribution = pre.stake_distribution
        /\ state.rewards = pre.rewards
        /\ DOMAIN state = DOMAIN pre

\* a block of the registering coinbase and the delegating, retiring spend
\* was applied in full to a ledger that has a pool p1, a stake and a reward
C40_Witness ==
    /\ LedgerApplied
    /\ call.op = "apply_block"
    /\ call.block.transactions = <<CertCoinbase, CertSpend>>
    /\ res
    /\ state.utxos # pre.utxos
    /\ "p1" \in DOMAIN pre.stake_pools
    /\ "p2" \notin DOMAIN pre.stake_pools
    /\ pre.stake_distribution # EmptyMap
    /\ pre.rewards # EmptyMap

====
